---- MODULE Spec2Model ----
(***************************************************************************)
(* Kernel object nucleus of soliloquy (third_party/zircon_c): the PMM      *)
(* arena, the bootstrap VMO with its page fault handler, the handle table  *)
(* and the channel IPC primitive, modelled from the C sources.  Pointers   *)
(* are modelled by indices; NULL is the value NULL below.                  *)
(***************************************************************************)
EXTENDS Integers, Sequences, FiniteSets, TLC

VARIABLES
    arena,                      \* pmm_arena_t, page_array holding the vm_page_t descriptors
    table,                      \* handle_table_t (the table under test / g_handle_table)
    g_handle_table_initialized, \* channel.c: static bool
    endpoints,                  \* the channel_endpoint_t objects malloc'ed so far (never freed)
    last,                       \* the last call made and its status, with the arguments and
                                \* results of a call that took effect
    issued,                     \* history: the handle IDs returned and not yet closed
    chans,                      \* history: the handle pairs returned by channel_create
    wlog,                       \* history: payloads of the successful writes, per handle pair side
    rlog,                       \* history: payloads of the successful reads, per handle pair side
    vmos,                       \* the vmo_t objects, each with its page_fault_handler_t
    vhist,                      \* history, per VMO: free_count at its init while no other
                                \* call has changed the arena since, NULL otherwise
    threads,                    \* the threads running their calls statement by statement:
                                \* position, arguments and locals of each
    queue,                      \* a message_queue_t used directly through message_packet.h
    queued                      \* history: address and payload of the packets enqueued on
                                \* queue and neither dequeued nor destroyed, oldest first

vars == <<arena, table, g_handle_table_initialized, endpoints, last,
          issued, chans, wlog, rlog, vmos, vhist, threads, queue, queued>>

queueVars == <<queue, queued>>

ipcVars == <<table, g_handle_table_initialized, endpoints, issued, chans, wlog, rlog, threads,
             queueVars>>

vmoVars == <<vmos, vhist>>

NULL == -1

\* ---------------------------------------------------------------- status codes
ZX_OK == "ZX_OK"
ZX_ERR_NO_MEMORY == "ZX_ERR_NO_MEMORY"
ZX_ERR_INVALID_ARGS == "ZX_ERR_INVALID_ARGS"
ZX_ERR_NOT_FOUND == "ZX_ERR_NOT_FOUND"
ZX_ERR_BAD_HANDLE == "ZX_ERR_BAD_HANDLE"

\* ---------------------------------------------------------------- bounds
MaxPages == 3       \* the largest arena, in pages
MaxRef == 3         \* aliases are taken only while ref_count < MaxRef
MaxChannels == 2    \* channel_create is called only while fewer channels were created
MaxWrites == 2      \* channel_write is called only while no handle has that many writes logged
MaxVmoPages == 2    \* the largest VMO, in pages
MaxVmoArena == 2    \* the largest arena the VMOs commit from, in pages
MaxHandles == 2     \* handle_alloc / handle_duplicate are called only while count < MaxHandles

\* ================================================================ PMM arena
PAGE_SIZE == 4096

\* uint32_t: counts and IDs of the model stay far below 2^32, so the one wrap
\* that can happen is 0 - 1 = 0xFFFFFFFF, an index beyond every chain; it is
\* stood for by the largest integer TLC represents
UINT32_MAX == 2147483647
U32Dec(x) == IF x = 0 THEN UINT32_MAX ELSE x - 1

VM_PAGE_STATE_FREE == 0
VM_PAGE_STATE_ALLOCATED == 1

ArenaBase == 16777216   \* 0x1000000, the base the tests use

\* pmm_arena_init's loop, iterations i .. page_count-1, from arena state a
RECURSIVE PmmInitLoop(_, _, _)
PmmInitLoop(a, i, page_count) ==
    IF i >= page_count THEN a
    ELSE PmmInitLoop(
            [a EXCEPT !.page_array[i] = [paddr |-> a.base + (i * PAGE_SIZE),
                                         state |-> VM_PAGE_STATE_FREE,
                                         ref_count |-> 0,
                                         next |-> a.free_list],
                      !.free_list = i,
                      !.free_count = a.free_count + 1],
            i + 1, page_count)

\* a pmm_arena_init whose loop stops one descriptor early
PmmArenaInit_SkipsLast(base, size) ==
    IF size = 0
    THEN [status |-> ZX_ERR_INVALID_ARGS, arena |-> NULL]
    ELSE LET page_count == size \div PAGE_SIZE
             a0 == [base |-> base, size |-> size,
                    page_array |-> [i \in 0..(page_count - 1) |->
                                      [paddr |-> 0, state |-> 0, ref_count |-> 0, next |-> NULL]],
                    free_list |-> NULL,
                    free_count |-> 0]
         IN  [status |-> ZX_OK, arena |-> PmmInitLoop(a0, 0, page_count - 1)]

\* pmm_arena_init(arena, base, size): [status, arena]; calloc zeroes the descriptors
PmmArenaInit(base, size) ==
    IF size = 0
    THEN [status |-> ZX_ERR_INVALID_ARGS, arena |-> NULL]
    ELSE LET page_count == size \div PAGE_SIZE
             a0 == [base |-> base, size |-> size,
                    page_array |-> [i \in 0..(page_count - 1) |->
                                      [paddr |-> 0, state |-> 0, ref_count |-> 0, next |-> NULL]],
                    free_list |-> NULL,
                    free_count |-> 0]
         IN  [status |-> ZX_OK, arena |-> PmmInitLoop(a0, 0, page_count)]

\* an alloc_page that pops the descriptor and marks it but leaves ref_count alone
PmmAllocPage_NoRef(a) ==
    IF a.free_list = NULL
    THEN [status |-> ZX_ERR_NO_MEMORY, page |-> NULL, arena |-> a]
    ELSE LET page == a.free_list
         IN  [status |-> ZX_OK, page |-> page,
              arena |-> [a EXCEPT !.free_list = a.page_array[page].next,
                                  !.free_count = a.free_count - 1,
                                  !.page_array[page].state = VM_PAGE_STATE_ALLOCATED,
                                  !.page_array[page].next = NULL]]

\* an alloc_page that hands out the head of the free list without unlinking it
PmmAllocPage_NoPop(a) ==
    IF a.free_list = NULL
    THEN [status |-> ZX_ERR_NO_MEMORY, page |-> NULL, arena |-> a]
    ELSE LET page == a.free_list
         IN  [status |-> ZX_OK, page |-> page,
              arena |-> [a EXCEPT !.free_count = a.free_count - 1,
                                  !.page_array[page].state = VM_PAGE_STATE_ALLOCATED,
                                  !.page_array[page].ref_count = 1]]

\* pmm_arena_alloc_page(arena, &page): [status, page, arena]
PmmAllocPage(a) ==
    IF a.free_list = NULL
    THEN [status |-> ZX_ERR_NO_MEMORY, page |-> NULL, arena |-> a]
    ELSE LET page == a.free_list
         IN  [status |-> ZX_OK, page |-> page,
              arena |-> [a EXCEPT !.free_list = a.page_array[page].next,
                                  !.free_count = a.free_count - 1,
                                  !.page_array[page].state = VM_PAGE_STATE_ALLOCATED,
                                  !.page_array[page].ref_count = 1,
                                  !.page_array[page].next = NULL]]

\* a free_page that forgets the state test and pushes whatever it is given
PmmFreePage_NoStateCheck(a, page) ==
    [status |-> ZX_OK,
     arena |-> [a EXCEPT !.page_array[page].ref_count = 0,
                         !.page_array[page].state = VM_PAGE_STATE_FREE,
                         !.page_array[page].next = a.free_list,
                         !.free_list = page,
                         !.free_count = a.free_count + 1]]

\* a free_page that links the released descriptor behind the head of the free
\* list instead of in front of it
PmmFreePage_BehindHead(a, page) ==
    IF a.page_array[page].state # VM_PAGE_STATE_ALLOCATED
    THEN [status |-> ZX_ERR_INVALID_ARGS, arena |-> a]
    ELSE IF a.page_array[page].ref_count = 0
    THEN [status |-> ZX_ERR_INVALID_ARGS, arena |-> a]
    ELSE LET a1 == [a EXCEPT !.page_array[page].ref_count = a.page_array[page].ref_count - 1]
         IN  IF a1.page_array[page].ref_count > 0
             THEN [status |-> ZX_OK, arena |-> a1]
             ELSE IF a1.free_list = NULL
             THEN [status |-> ZX_OK,
                   arena |-> [a1 EXCEPT !.page_array[page].state = VM_PAGE_STATE_FREE,
                                        !.page_array[page].next = NULL,
                                        !.free_list = page,
                                        !.free_count = a1.free_count + 1]]
             ELSE [status |-> ZX_OK,
                   arena |-> [a1 EXCEPT !.page_array[page].state = VM_PAGE_STATE_FREE,
                                        !.page_array[page].next = a1.page_array[a1.free_list].next,
                                        !.page_array[a1.free_list].next = page,
                                        !.free_count = a1.free_count + 1]]

\* a free_page that releases the page at the first call, whatever its ref_count
PmmFreePage_FreesAtOnce(a, page) ==
    IF a.page_array[page].state # VM_PAGE_STATE_ALLOCATED
    THEN [status |-> ZX_ERR_INVALID_ARGS, arena |-> a]
    ELSE IF a.page_array[page].ref_count = 0
    THEN [status |-> ZX_ERR_INVALID_ARGS, arena |-> a]
    ELSE [status |-> ZX_OK,
          arena |-> [a EXCEPT !.page_array[page].ref_count = 0,
                              !.page_array[page].state = VM_PAGE_STATE_FREE,
                              !.page_array[page].next = a.free_list,
                              !.free_list = page,
                              !.free_count = a.free_count + 1]]

\* a free_page without its two argument tests: the ref_count of a Free page
\* wraps below zero and the call reports success
PmmFreePage_Unchecked(a, page) ==
    LET rc == IF a.page_array[page].ref_count = 0 THEN 2147483647
              ELSE a.page_array[page].ref_count - 1
        a1 == [a EXCEPT !.page_array[page].ref_count = rc]
    IN  IF rc > 0
        THEN [status |-> ZX_OK, arena |-> a1]
        ELSE [status |-> ZX_OK,
              arena |-> [a1 EXCEPT !.page_array[page].state = VM_PAGE_STATE_FREE,
                                   !.page_array[page].next = a1.free_list,
                                   !.free_list = page,
                                   !.free_count = a1.free_count + 1]]

\* pmm_arena_free_page(arena, page): [status, arena]
PmmFreePage(a, page) ==
    IF a.page_array[page].state # VM_PAGE_STATE_ALLOCATED
    THEN [status |-> ZX_ERR_INVALID_ARGS, arena |-> a]
    ELSE IF a.page_array[page].ref_count = 0
    THEN [status |-> ZX_ERR_INVALID_ARGS, arena |-> a]
    ELSE LET a1 == [a EXCEPT !.page_array[page].ref_count = a.page_array[page].ref_count - 1]
         IN  IF a1.page_array[page].ref_count > 0
             THEN [status |-> ZX_OK, arena |-> a1]
             ELSE [status |-> ZX_OK,
                   arena |-> [a1 EXCEPT !.page_array[page].state = VM_PAGE_STATE_FREE,
                                        !.page_array[page].next = a1.free_list,
                                        !.free_list = page,
                                        !.free_count = a1.free_count + 1]]

Pages(a) == DOMAIN a.page_array

\* the descriptors linked from p through next, at most fuel of them
RECURSIVE FreeListFrom(_, _, _)
FreeListFrom(a, p, fuel) ==
    IF p = NULL \/ fuel = 0 THEN <<>>
    ELSE <<p>> \o FreeListFrom(a, a.page_array[p].next, fuel - 1)

\* the free list as a sequence of descriptors, head first (cut after one more
\* than there are descriptors, so that a cycle shows as an over-long list)
FreeList(a) == FreeListFrom(a, a.free_list, Cardinality(Pages(a)) + 1)

SeqRange(s) == {s[i] : i \in 1..Len(s)}

\* ---- actions
AllocPage ==
    /\ LET r == PmmAllocPage(arena)
       IN  /\ arena' = r.arena
           /\ last' = [op |-> "alloc_page", status |-> r.status, page |-> r.page]
    /\ UNCHANGED <<ipcVars, vmoVars>>

FreePage ==
    /\ \E page \in Pages(arena) :
         LET r == PmmFreePage(arena, page)
         IN  /\ arena' = r.arena
             /\ last' = [op |-> "free_page", status |-> r.status, page |-> page]
    /\ UNCHANGED <<ipcVars, vmoVars>>

\* a holder of an Allocated page takes an alias: page->ref_count++
AliasPage ==
    /\ \E page \in Pages(arena) :
         /\ arena.page_array[page].state = VM_PAGE_STATE_ALLOCATED
         /\ arena.page_array[page].ref_count < MaxRef
         /\ arena' = [arena EXCEPT !.page_array[page].ref_count = @ + 1]
         /\ last' = [op |-> "alias_page", status |-> ZX_OK, page |-> page]
    /\ UNCHANGED <<ipcVars, vmoVars>>

NoCall == [op |-> "none", status |-> ZX_OK]

\* a thread that has not called channel_write: the call's arguments, its locals
\* endpoint and status; enqueued says that message_queue_enqueue has linked
\* the packet, before_close that the other thread had run no statement of
\* its channel_close when it did
NoWrite == [pc |-> "idle", handle |-> 0, data |-> <<>>, endpoint |-> NULL, peer |-> NULL,
            status |-> ZX_OK, enqueued |-> FALSE, before_close |-> FALSE]
\* a thread that has not called channel_close
NoClose == [pc |-> "idle", handle |-> 0, endpoint |-> NULL, status |-> ZX_OK]
\* what a channel_read leaves in its caller's buffers and out-parameters when
\* it writes to none of them
NoOut == [actual_data_size |-> NULL, data_copied |-> FALSE, data |-> <<>>,
          actual_num_handles |-> NULL, handles_copied |-> FALSE, handles |-> <<>>]
\* a thread that has not called channel_read: the call's arguments, its locals
\* endpoint and status, what it left in the caller's buffers; after_write says
\* that the other thread's channel_write had returned Ok when the call was made
NoRead == [pc |-> "idle", handle |-> 0, data_size |-> 0, num_handles |-> 0, endpoint |-> NULL,
           status |-> ZX_OK, out |-> NoOut, after_write |-> FALSE]
NoThreads == [w |-> NoWrite, c |-> NoClose, r |-> NoRead]

\* no message_queue_t is used directly
QueueIdle ==
    /\ queue = [head |-> NULL, tail |-> NULL, count |-> 0, pkts |-> <<>>]
    /\ queued = <<>>

IpcIdle ==
    /\ threads = NoThreads
    /\ QueueIdle
    /\ table = [num_buckets |-> 0, buckets |-> <<>>, count |-> 0]
    /\ g_handle_table_initialized = FALSE
    /\ endpoints = <<>>
    /\ issued = <<>>
    /\ chans = <<>>
    /\ wlog = <<>>
    /\ rlog = <<>>

\* the vmo_t objects of the model; a vmo_t is declared without an initialiser
\* (vm_test.cc: "vmo_t vmo;"), so until vmo_bootstrap_init its fields hold
\* nothing usable.  ptr tells what the pages pointer is: "uninit", "null" or
\* "array" (the calloc'ed slot array, kept in pages, slot i at pages[i + 1])
VmoIds == {1, 2}

NoVmo == [size |-> 0, page_count |-> 0, pages |-> <<>>, ptr |-> "uninit"]

VmoIdle ==
    /\ vmos = [v \in VmoIds |-> NoVmo]
    /\ vhist = [v \in VmoIds |-> NULL]

PmmInit ==
    /\ \E n \in 1..MaxPages : arena = PmmArenaInit(ArenaBase, n * PAGE_SIZE).arena
    /\ last = NoCall
    /\ IpcIdle
    /\ VmoIdle

PmmNext == AllocPage \/ FreePage \/ AliasPage

PmmSpec == PmmInit /\ [][PmmNext]_vars

\* ---------------------------------------------------------------- two threads on one arena
\* Two threads of one process call pmm_arena_alloc_page / pmm_arena_free_page
\* on the same arena.  pmm_arena.c takes no lock and uses no atomic access, so
\* every interleaving of the loads and stores below can happen; free_count--
\* and free_count++ are a load followed by a store.

PmmThreads == {1, 2}

\* size_t arithmetic on free_count; SIZE_MAX is carried as the largest value
\* the model's integers hold
SIZE_MAX == UINT32_MAX
SizeDec(x) == IF x = 0 THEN SIZE_MAX ELSE x - 1
SizeInc(x) == IF x = SIZE_MAX THEN 0 ELSE x + 1

\* a thread outside any call: op is the call, page its page argument (free)
\* or local (alloc), seen the free_count it has loaded
NoPmmCall == [pc |-> "idle", op |-> "none", page |-> NULL, seen |-> 0, status |-> ZX_OK]

PmmReturn(t, st) == [threads EXCEPT ![t].pc = "done", ![t].status = st]
PmmGoto(t, pc) == [threads EXCEPT ![t].pc = pc]

PmmFrame == UNCHANGED <<vmoVars, queueVars, table, g_handle_table_initialized, endpoints, last,
                        issued, chans, wlog, rlog>>

\* thread t calls pmm_arena_alloc_page(arena, &page)
AllocInvoke(t) ==
    /\ threads[t].pc = "idle"
    /\ threads' = [threads EXCEPT ![t] = [NoPmmCall EXCEPT !.pc = "alloc_test", !.op = "alloc_page"]]
    /\ UNCHANGED arena /\ PmmFrame

\* if (arena->free_list == NULL) return ZX_ERR_NO_MEMORY
AllocTest(t) ==
    /\ threads[t].pc = "alloc_test"
    /\ threads' = IF arena.free_list = NULL THEN PmmReturn(t, ZX_ERR_NO_MEMORY)
                  ELSE [threads EXCEPT ![t].pc = "alloc_load", ![t].page = arena.free_list]
    /\ UNCHANGED arena /\ PmmFrame

\* vm_page_t* page = arena->free_list: the build may load free_list again or
\* use the value loaded for the test
AllocLoad(t) ==
    /\ threads[t].pc = "alloc_load"
    /\ \E page \in {threads[t].page, arena.free_list} :
         threads' = [threads EXCEPT ![t].pc = "alloc_pop", ![t].page = page]
    /\ UNCHANGED arena /\ PmmFrame

\* arena->free_list = page->next; with page NULL the load of page->next faults
AllocPop(t) ==
    /\ threads[t].pc = "alloc_pop"
    /\ LET page == threads[t].page
       IN  IF page = NULL
           THEN threads' = PmmGoto(t, "fault") /\ UNCHANGED arena
           ELSE /\ arena' = [arena EXCEPT !.free_list = arena.page_array[page].next]
                /\ threads' = PmmGoto(t, "alloc_dec_load")
    /\ PmmFrame

\* arena->free_count--, the load
AllocDecLoad(t) ==
    /\ threads[t].pc = "alloc_dec_load"
    /\ threads' = [threads EXCEPT ![t].pc = "alloc_dec_store", ![t].seen = arena.free_count]
    /\ UNCHANGED arena /\ PmmFrame

\* arena->free_count--, the store
AllocDecStore(t) ==
    /\ threads[t].pc = "alloc_dec_store"
    /\ arena' = [arena EXCEPT !.free_count = SizeDec(threads[t].seen)]
    /\ threads' = PmmGoto(t, "alloc_mark")
    /\ PmmFrame

\* page->state = ALLOCATED; page->ref_count = 1; page->next = NULL; *out_page = page
AllocMark(t) ==
    /\ threads[t].pc = "alloc_mark"
    /\ LET page == threads[t].page
       IN  arena' = [arena EXCEPT !.page_array[page].state = VM_PAGE_STATE_ALLOCATED,
                                  !.page_array[page].ref_count = 1,
                                  !.page_array[page].next = NULL]
    /\ threads' = PmmReturn(t, ZX_OK)
    /\ PmmFrame

\* thread t calls pmm_arena_free_page(arena, page)
FreeInvoke(t) ==
    /\ threads[t].pc = "idle"
    /\ \E page \in Pages(arena) :
         threads' = [threads EXCEPT ![t] = [NoPmmCall EXCEPT !.pc = "free_test_state",
                                                             !.op = "free_page", !.page = page]]
    /\ UNCHANGED arena /\ PmmFrame

\* if (page->state != VM_PAGE_STATE_ALLOCATED) return ZX_ERR_INVALID_ARGS
FreeTestState(t) ==
    /\ threads[t].pc = "free_test_state"
    /\ threads' = IF arena.page_array[threads[t].page].state # VM_PAGE_STATE_ALLOCATED
                  THEN PmmReturn(t, ZX_ERR_INVALID_ARGS)
                  ELSE PmmGoto(t, "free_test_ref")
    /\ UNCHANGED arena /\ PmmFrame

\* if (page->ref_count == 0) return ZX_ERR_INVALID_ARGS
FreeTestRef(t) ==
    /\ threads[t].pc = "free_test_ref"
    /\ threads' = IF arena.page_array[threads[t].page].ref_count = 0
                  THEN PmmReturn(t, ZX_ERR_INVALID_ARGS)
                  ELSE PmmGoto(t, "free_dec_ref")
    /\ UNCHANGED arena /\ PmmFrame

\* page->ref_count--; if (page->ref_count > 0) return ZX_OK
FreeDecRef(t) ==
    /\ threads[t].pc = "free_dec_ref"
    /\ LET page == threads[t].page
           rc == U32Dec(arena.page_array[page].ref_count)
       IN  /\ arena' = [arena EXCEPT !.page_array[page].ref_count = rc]
           /\ threads' = IF rc > 0 THEN PmmReturn(t, ZX_OK) ELSE PmmGoto(t, "free_mark")
    /\ PmmFrame

\* page->state = VM_PAGE_STATE_FREE
FreeMark(t) ==
    /\ threads[t].pc = "free_mark"
    /\ arena' = [arena EXCEPT !.page_array[threads[t].page].state = VM_PAGE_STATE_FREE]
    /\ threads' = PmmGoto(t, "free_link")
    /\ PmmFrame

\* page->next = arena->free_list
FreeLink(t) ==
    /\ threads[t].pc = "free_link"
    /\ arena' = [arena EXCEPT !.page_array[threads[t].page].next = arena.free_list]
    /\ threads' = PmmGoto(t, "free_push")
    /\ PmmFrame

\* arena->free_list = page
FreePush(t) ==
    /\ threads[t].pc = "free_push"
    /\ arena' = [arena EXCEPT !.free_list = threads[t].page]
    /\ threads' = PmmGoto(t, "free_inc_load")
    /\ PmmFrame

\* arena->free_count++, the load
FreeIncLoad(t) ==
    /\ threads[t].pc = "free_inc_load"
    /\ threads' = [threads EXCEPT ![t].pc = "free_inc_store", ![t].seen = arena.free_count]
    /\ UNCHANGED arena /\ PmmFrame

\* arena->free_count++, the store; return ZX_OK
FreeIncStore(t) ==
    /\ threads[t].pc = "free_inc_store"
    /\ arena' = [arena EXCEPT !.free_count = SizeInc(threads[t].seen)]
    /\ threads' = PmmReturn(t, ZX_OK)
    /\ PmmFrame

\* the arena after k pmm_arena_alloc_page calls
RECURSIVE AfterAllocs(_, _)
AfterAllocs(a, k) == IF k = 0 THEN a ELSE AfterAllocs(PmmAllocPage(a).arena, k - 1)

\* an arena of n pages of which a single thread has allocated k, before the
\* two threads make their calls
PmmRaceInit ==
    /\ QueueIdle
    /\ \E n \in 1..MaxPages : \E k \in 0..n :
         arena = AfterAllocs(PmmArenaInit(ArenaBase, n * PAGE_SIZE).arena, k)
    /\ threads = [t \in PmmThreads |-> NoPmmCall]
    /\ table = [num_buckets |-> 0, buckets |-> <<>>, count |-> 0]
    /\ g_handle_table_initialized = FALSE
    /\ endpoints = <<>>
    /\ issued = <<>>
    /\ chans = <<>>
    /\ wlog = <<>>
    /\ rlog = <<>>
    /\ last = NoCall
    /\ VmoIdle

PmmRaceNext ==
    \E t \in PmmThreads :
        \/ AllocInvoke(t) \/ AllocTest(t) \/ AllocLoad(t) \/ AllocPop(t)
        \/ AllocDecLoad(t) \/ AllocDecStore(t) \/ AllocMark(t)
        \/ FreeInvoke(t) \/ FreeTestState(t) \/ FreeTestRef(t) \/ FreeDecRef(t)
        \/ FreeMark(t) \/ FreeLink(t) \/ FreePush(t) \/ FreeIncLoad(t) \/ FreeIncStore(t)

PmmRaceSpec == PmmRaceInit /\ [][PmmRaceNext]_vars

\* ================================================================ handle table
ZX_HANDLE_INVALID == 0

ZX_RIGHT_NONE == 0
ZX_RIGHT_READ == 1
ZX_RIGHT_WRITE == 2
ZX_RIGHT_DUPLICATE == 4
ZX_RIGHT_TRANSFER == 8

HANDLE_TABLE_INITIAL_BUCKETS == 64

\* a & b on unsigned integers
RECURSIVE BitAnd(_, _)
BitAnd(a, b) ==
    IF a = 0 \/ b = 0 THEN 0
    ELSE ((a % 2) * (b % 2)) + 2 * BitAnd(a \div 2, b \div 2)

\* handle_has_rights(handle_rights, required_rights)
HandleHasRights(handle_rights, required_rights) ==
    BitAnd(handle_rights, required_rights) = required_rights

\* handle_table_init(table, initial_buckets); calloc leaves every chain empty
HandleTableInit(initial_buckets) ==
    LET nb == IF initial_buckets > 0 THEN initial_buckets ELSE HANDLE_TABLE_INITIAL_BUCKETS
    IN  [num_buckets |-> nb,
         buckets |-> [b \in 0..(nb - 1) |-> <<>>],
         count |-> 0]

\* HANDLE_HASH(h)
HandleHash(t, h) == h % t.num_buckets

\* handle_alloc(table, object, rights, &handle): [status, handle, table].
\* A chain is the sequence of its entries, head first; oom is malloc failing.
HandleAlloc(t, object, rights, oom) ==
    IF object = NULL
    THEN [status |-> ZX_ERR_INVALID_ARGS, handle |-> ZX_HANDLE_INVALID, table |-> t]
    ELSE IF oom
    THEN [status |-> ZX_ERR_NO_MEMORY, handle |-> ZX_HANDLE_INVALID, table |-> t]
    ELSE LET entry == [object |-> object, rights |-> rights, ref_count |-> 1]
             handle == t.count + 1
             bucket == HandleHash(t, handle)
         IN  [status |-> ZX_OK, handle |-> handle,
              table |-> [t EXCEPT !.buckets[bucket] = <<entry>> \o t.buckets[bucket],
                                  !.count = t.count + 1]]

\* find_entry(table, handle, &prev): where the entry found sits, [bucket, pos]
\* (pos counted from 1 at the head of the chain); pos 0 is the NULL return
FindEntry(t, handle) ==
    LET bucket == HandleHash(t, handle)
        target_index == U32Dec(handle)
    IN  IF target_index < Len(t.buckets[bucket])
        THEN [bucket |-> bucket, pos |-> target_index + 1]
        ELSE [bucket |-> bucket, pos |-> 0]

EntryAt(t, where) == t.buckets[where.bucket][where.pos]

\* handle_get(table, handle, required_rights, &object): [status, object]
HandleGet(t, handle, required_rights) ==
    IF handle = ZX_HANDLE_INVALID
    THEN [status |-> ZX_ERR_INVALID_ARGS, object |-> NULL]
    ELSE LET where == FindEntry(t, handle)
         IN  IF where.pos = 0
             THEN [status |-> ZX_ERR_BAD_HANDLE, object |-> NULL]
             ELSE IF ~HandleHasRights(EntryAt(t, where).rights, required_rights)
             THEN [status |-> ZX_ERR_INVALID_ARGS, object |-> NULL]
             ELSE [status |-> ZX_OK, object |-> EntryAt(t, where).object]

\* the chain s without its pos-th entry: *prev_ptr = entry->next
Unlink(s, pos) == SubSeq(s, 1, pos - 1) \o SubSeq(s, pos + 1, Len(s))

\* a handle_close that unlinks the entry and leaves count as it was
HandleClose_KeepsCount(t, handle) ==
    IF handle = ZX_HANDLE_INVALID
    THEN [status |-> ZX_ERR_INVALID_ARGS, table |-> t]
    ELSE LET where == FindEntry(t, handle)
         IN  IF where.pos = 0
             THEN [status |-> ZX_ERR_BAD_HANDLE, table |-> t]
             ELSE LET rc == U32Dec(EntryAt(t, where).ref_count)
                  IN  IF rc = 0
                      THEN [status |-> ZX_OK,
                            table |-> [t EXCEPT !.buckets[where.bucket] = Unlink(@, where.pos)]]
                      ELSE [status |-> ZX_OK,
                            table |-> [t EXCEPT !.buckets[where.bucket][where.pos].ref_count = rc]]

\* handle_close(table, handle): [status, table]
HandleClose(t, handle) ==
    IF handle = ZX_HANDLE_INVALID
    THEN [status |-> ZX_ERR_INVALID_ARGS, table |-> t]
    ELSE LET where == FindEntry(t, handle)
         IN  IF where.pos = 0
             THEN [status |-> ZX_ERR_BAD_HANDLE, table |-> t]
             ELSE LET rc == U32Dec(EntryAt(t, where).ref_count)
                  IN  IF rc = 0
                      THEN [status |-> ZX_OK,
                            table |-> [t EXCEPT !.buckets[where.bucket] = Unlink(@, where.pos),
                                                !.count = U32Dec(t.count)]]
                      ELSE [status |-> ZX_OK,
                            table |-> [t EXCEPT !.buckets[where.bucket][where.pos].ref_count = rc]]

\* a handle_duplicate that installs the rights asked for
HandleDuplicate_GrantsRequested(t, handle, rights, oom) ==
    IF handle = ZX_HANDLE_INVALID
    THEN [status |-> ZX_ERR_INVALID_ARGS, handle |-> ZX_HANDLE_INVALID, table |-> t]
    ELSE LET where == FindEntry(t, handle)
         IN  IF where.pos = 0
             THEN [status |-> ZX_ERR_BAD_HANDLE, handle |-> ZX_HANDLE_INVALID, table |-> t]
             ELSE IF ~HandleHasRights(EntryAt(t, where).rights, ZX_RIGHT_DUPLICATE)
             THEN [status |-> ZX_ERR_INVALID_ARGS, handle |-> ZX_HANDLE_INVALID, table |-> t]
             ELSE HandleAlloc(t, EntryAt(t, where).object, rights, oom)

\* handle_duplicate(table, handle, rights, &out): [status, handle, table]
HandleDuplicate(t, handle, rights, oom) ==
    IF handle = ZX_HANDLE_INVALID
    THEN [status |-> ZX_ERR_INVALID_ARGS, handle |-> ZX_HANDLE_INVALID, table |-> t]
    ELSE LET where == FindEntry(t, handle)
         IN  IF where.pos = 0
             THEN [status |-> ZX_ERR_BAD_HANDLE, handle |-> ZX_HANDLE_INVALID, table |-> t]
             ELSE IF ~HandleHasRights(EntryAt(t, where).rights, ZX_RIGHT_DUPLICATE)
             THEN [status |-> ZX_ERR_INVALID_ARGS, handle |-> ZX_HANDLE_INVALID, table |-> t]
             ELSE HandleAlloc(t, EntryAt(t, where).object,
                              BitAnd(rights, EntryAt(t, where).rights), oom)

\* ---- the calls made on a table under test
Objects == {1, 2}                    \* two kernel objects, by address
InitialBuckets == {0, 1, 2}          \* handle_table_init's argument
AllocRights == {ZX_RIGHT_READ + ZX_RIGHT_WRITE + ZX_RIGHT_DUPLICATE,
                ZX_RIGHT_READ + ZX_RIGHT_WRITE + ZX_RIGHT_TRANSFER}
DupRights == {ZX_RIGHT_READ + ZX_RIGHT_TRANSFER,
              ZX_RIGHT_READ + ZX_RIGHT_WRITE + ZX_RIGHT_DUPLICATE + ZX_RIGHT_TRANSFER}
GetRights == {ZX_RIGHT_READ, ZX_RIGHT_WRITE, ZX_RIGHT_READ + ZX_RIGHT_WRITE}
HandleIds == 0..MaxHandles

\* issued maps each ID handed out and not closed since to the object and the
\* rights it was handed out for
IssuedIds == DOMAIN issued

Issue(id, object, rights, by) ==
    [h \in IssuedIds \cup {id} |->
        IF h = id THEN [object |-> object, rights |-> rights, by |-> by] ELSE issued[h]]

Retire(id) == [h \in IssuedIds \ {id} |-> issued[h]]

HandleAllocCall ==
    /\ table.count < MaxHandles
    /\ \E object \in Objects \cup {NULL}, rights \in AllocRights, oom \in BOOLEAN :
         LET r == HandleAlloc(table, object, rights, oom)
         IN  /\ table' = r.table
             /\ last' = [op |-> "handle_alloc", status |-> r.status, handle |-> r.handle,
                         fresh |-> r.handle \notin IssuedIds]
             /\ issued' = IF r.status = ZX_OK THEN Issue(r.handle, object, rights, "alloc") ELSE issued
    /\ UNCHANGED <<vmoVars, queueVars, threads, arena, g_handle_table_initialized, endpoints, chans, wlog, rlog>>

HandleGetCall ==
    /\ \E handle \in HandleIds, required_rights \in GetRights :
         LET r == HandleGet(table, handle, required_rights)
         IN  last' = [op |-> "handle_get", status |-> r.status]
    /\ UNCHANGED <<vmoVars, queueVars, threads, arena, table, g_handle_table_initialized, endpoints, issued, chans, wlog, rlog>>

HandleCloseCall ==
    /\ \E handle \in HandleIds :
         LET r == HandleClose(table, handle)
         IN  /\ table' = r.table
             /\ last' = IF r.status = ZX_OK
                        THEN [op |-> "handle_close", status |-> r.status, handle |-> handle]
                        ELSE [op |-> "handle_close", status |-> r.status]
             /\ issued' = IF r.status = ZX_OK THEN Retire(handle) ELSE issued
    /\ UNCHANGED <<vmoVars, queueVars, threads, arena, g_handle_table_initialized, endpoints, chans, wlog, rlog>>

HandleDuplicateCall ==
    /\ table.count < MaxHandles
    /\ \E handle \in HandleIds, rights \in DupRights, oom \in BOOLEAN :
         LET r == HandleDuplicate(table, handle, rights, oom)
             source == EntryAt(table, FindEntry(table, handle))
         IN  /\ table' = r.table
             /\ last' = [op |-> "handle_duplicate", status |-> r.status, handle |-> r.handle,
                         fresh |-> r.handle \notin IssuedIds]
             /\ issued' = IF r.status = ZX_OK
                          THEN Issue(r.handle, source.object, BitAnd(rights, source.rights), "duplicate")
                          ELSE issued
    /\ UNCHANGED <<vmoVars, queueVars, threads, arena, g_handle_table_initialized, endpoints, chans, wlog, rlog>>

HandleInit ==
    /\ QueueIdle
    /\ arena = PmmArenaInit(ArenaBase, PAGE_SIZE).arena
    /\ \E initial_buckets \in InitialBuckets : table = HandleTableInit(initial_buckets)
    /\ threads = NoThreads
    /\ g_handle_table_initialized = FALSE
    /\ endpoints = <<>>
    /\ last = NoCall
    /\ issued = <<>>
    /\ chans = <<>>
    /\ wlog = <<>>
    /\ rlog = <<>>
    /\ VmoIdle

HandleNext == HandleAllocCall \/ HandleGetCall \/ HandleCloseCall \/ HandleDuplicateCall

HandleSpec == HandleInit /\ [][HandleNext]_vars

\* ================================================================ message packets and queues
\* A queue owns the packets linked on it: pkts maps each packet's address to
\* the packet, head and tail are addresses (or NULL).

\* message_packet_create(data, data_size, handles, num_handles, &packet):
\* [status, packet]; data_null / handles_null say the pointer passed is NULL,
\* oom that one of the mallocs fails
MessagePacketCreate(data, data_size, data_null, handles, num_handles, handles_null, oom) ==
    IF data_size > 0 /\ data_null
    THEN [status |-> ZX_ERR_INVALID_ARGS]
    ELSE IF num_handles > 0 /\ handles_null
    THEN [status |-> ZX_ERR_INVALID_ARGS]
    ELSE IF oom
    THEN [status |-> ZX_ERR_NO_MEMORY]
    ELSE [status |-> ZX_OK,
          packet |-> [next |-> NULL, prev |-> NULL,
                      data_size |-> data_size, num_handles |-> num_handles,
                      data |-> SubSeq(data, 1, data_size),
                      handles |-> SubSeq(handles, 1, num_handles)]]

\* message_queue_init(queue)
MessageQueueInit == [head |-> NULL, tail |-> NULL, count |-> 0, pkts |-> <<>>]

\* the address malloc gives the next packet of this queue
NewPacket(q) == CHOOSE n \in 1..(Cardinality(DOMAIN q.pkts) + 1) : n \notin DOMAIN q.pkts

\* a function with one more point
Extend(f, x, v) == [y \in DOMAIN f \cup {x} |-> IF y = x THEN v ELSE f[y]]

\* message_queue_enqueue(queue, packet), the packet being at address id
MessageQueueEnqueue(q, id, packet) ==
    LET p1 == [packet EXCEPT !.next = NULL, !.prev = q.tail]
        pk == Extend(q.pkts, id, p1)
    IN  IF q.tail # NULL
        THEN [q EXCEPT !.pkts = [pk EXCEPT ![q.tail].next = id],
                       !.tail = id, !.count = q.count + 1]
        ELSE [q EXCEPT !.pkts = pk, !.head = id, !.tail = id, !.count = q.count + 1]

\* a dequeue that leaves tail pointing at the packet it returns when that
\* packet was the only one
MessageQueueDequeue_KeepsTail(q) ==
    IF q.head = NULL
    THEN [found |-> FALSE, queue |-> q]
    ELSE LET id == q.head
             packet == q.pkts[id]
             head == packet.next
             rest == [x \in DOMAIN q.pkts \ {id} |-> q.pkts[x]]
         IN  [found |-> TRUE,
              packet |-> [packet EXCEPT !.next = NULL, !.prev = NULL],
              queue |-> IF head # NULL
                        THEN [q EXCEPT !.pkts = [rest EXCEPT ![head].prev = NULL],
                                       !.head = head, !.count = U32Dec(q.count)]
                        ELSE [q EXCEPT !.pkts = rest,
                                       !.head = head, !.count = U32Dec(q.count)]]

\* message_queue_dequeue(queue): [packet, queue]; packet is NULL-less: found
\* says whether a packet was returned
MessageQueueDequeue(q) ==
    IF q.head = NULL
    THEN [found |-> FALSE, queue |-> q]
    ELSE LET id == q.head
             packet == q.pkts[id]
             head == packet.next
             rest == [x \in DOMAIN q.pkts \ {id} |-> q.pkts[x]]
         IN  [found |-> TRUE,
              packet |-> [packet EXCEPT !.next = NULL, !.prev = NULL],
              queue |-> IF head # NULL
                        THEN [q EXCEPT !.pkts = [rest EXCEPT ![head].prev = NULL],
                                       !.head = head, !.count = U32Dec(q.count)]
                        ELSE [q EXCEPT !.pkts = rest,
                                       !.head = head, !.tail = NULL, !.count = U32Dec(q.count)]]

\* message_queue_is_empty(queue)
MessageQueueIsEmpty(q) == q.count = 0

\* the packets linked from address p through next, at most fuel of them
RECURSIVE PacketsFrom(_, _, _)
PacketsFrom(q, p, fuel) ==
    IF p = NULL \/ fuel = 0 THEN <<>>
    ELSE <<p>> \o PacketsFrom(q, q.pkts[p].next, fuel - 1)

QueueChain(q) == PacketsFrom(q, q.head, Cardinality(DOMAIN q.pkts) + 1)

\* message_queue_destroy(queue): every packet linked from head is destroyed
MessageQueueDestroy(q) ==
    [head |-> NULL, tail |-> NULL, count |-> 0,
     pkts |-> [x \in DOMAIN q.pkts \ SeqRange(QueueChain(q)) |-> q.pkts[x]]]

\* what a queue holds, oldest first: the (data, handles) of the packets linked from head
QueueContents(q) ==
    LET chain == QueueChain(q)
    IN  [i \in 1..Len(chain) |-> [data |-> q.pkts[chain[i]].data,
                                  handles |-> q.pkts[chain[i]].handles]]

\* ---- the calls made on a queue directly
Payloads == {<<>>, <<120>>, <<104, 105>>}     \* "", "x", "hi"
MaxPackets == 3     \* message_queue_enqueue is called only while fewer packets are linked

QueueFrame == UNCHANGED <<vmoVars, arena, table, g_handle_table_initialized, endpoints,
                          issued, chans, wlog, rlog, threads>>

\* message_packet_create(data, Len(data), NULL, 0, &packet), then
\* message_queue_enqueue(&queue, packet); packet_null: the call is made with a
\* NULL packet instead and returns at its first test
QueueEnqueueCall ==
    /\ queue.count < MaxPackets
    /\ \E data \in Payloads, packet_null \in BOOLEAN :
         LET c == MessagePacketCreate(data, Len(data), FALSE, <<>>, 0, TRUE, FALSE)
             id == NewPacket(queue)
         IN  IF packet_null
             THEN /\ UNCHANGED queueVars
                  /\ last' = [op |-> "message_queue_enqueue", status |-> ZX_OK, linked |-> FALSE]
             ELSE /\ queue' = MessageQueueEnqueue(queue, id, c.packet)
                  /\ queued' = Append(queued, [id |-> id, data |-> data])
                  /\ last' = [op |-> "message_queue_enqueue", status |-> ZX_OK, linked |-> TRUE]
    /\ QueueFrame

\* packet = message_queue_dequeue(&queue); the caller destroys the packet
QueueDequeueCall ==
    /\ LET d == MessageQueueDequeue(queue)
       IN  /\ queue' = d.queue
           /\ last' = IF d.found
                      THEN [op |-> "message_queue_dequeue", status |-> ZX_OK, found |-> TRUE,
                            id |-> queue.head, data |-> d.packet.data,
                            next |-> d.packet.next, prev |-> d.packet.prev]
                      ELSE [op |-> "message_queue_dequeue", status |-> ZX_OK, found |-> FALSE]
    /\ queued' = IF queued = <<>> THEN queued ELSE Tail(queued)
    /\ QueueFrame

\* message_queue_is_empty(&queue)
QueueIsEmptyCall ==
    /\ last' = [op |-> "message_queue_is_empty", status |-> ZX_OK,
                empty |-> MessageQueueIsEmpty(queue)]
    /\ UNCHANGED queueVars
    /\ QueueFrame

\* message_queue_destroy(&queue)
QueueDestroyCall ==
    /\ queue' = MessageQueueDestroy(queue)
    /\ queued' = <<>>
    /\ last' = [op |-> "message_queue_destroy", status |-> ZX_OK]
    /\ QueueFrame

\* message_queue_init(&queue) has been called
QueueInit ==
    /\ arena = PmmArenaInit(ArenaBase, PAGE_SIZE).arena
    /\ last = NoCall
    /\ threads = NoThreads
    /\ table = [num_buckets |-> 0, buckets |-> <<>>, count |-> 0]
    /\ g_handle_table_initialized = FALSE
    /\ endpoints = <<>>
    /\ issued = <<>>
    /\ chans = <<>>
    /\ wlog = <<>>
    /\ rlog = <<>>
    /\ VmoIdle
    /\ queue = MessageQueueInit
    /\ queued = <<>>

QueueNext == QueueEnqueueCall \/ QueueDequeueCall \/ QueueIsEmptyCall \/ QueueDestroyCall

QueueSpec == QueueInit /\ [][QueueNext]_vars

\* ================================================================ channels
\* endpoints[e] is the e-th channel_endpoint_t malloc'ed; channel k (k = 1, 2, ..)
\* holds endpoint0 = endpoints[2k-1] and endpoint1 = endpoints[2k].  channel_close
\* never frees the channel, so an endpoint stays where it is once created.
\* In channel_create the mallocs are taken to succeed.

\* get_current_handle_table()
GetCurrentHandleTable(t, initialized) ==
    IF ~initialized THEN HandleTableInit(64) ELSE t

\* channel_endpoint_init(endpoint)
ChannelEndpointInit ==
    [message_queue |-> MessageQueueInit, peer |-> NULL, is_closed |-> FALSE, ref_count |-> 1]

\* channel handles that carry the Duplicate right as well
ChannelRights_WithDuplicate ==
    ZX_RIGHT_READ + ZX_RIGHT_WRITE + ZX_RIGHT_TRANSFER + ZX_RIGHT_DUPLICATE

ChannelRights == ZX_RIGHT_READ + ZX_RIGHT_WRITE + ZX_RIGHT_TRANSFER

\* channel_create(&h0, &h1): [status, handle0, handle1, table, endpoints]
ChannelCreate(t, initialized, eps) ==
    LET e0 == Len(eps) + 1
        e1 == Len(eps) + 2
        eps1 == eps \o <<[ChannelEndpointInit EXCEPT !.peer = e1],
                         [ChannelEndpointInit EXCEPT !.peer = e0]>>
        table0 == GetCurrentHandleTable(t, initialized)
        a0 == HandleAlloc(table0, e0, ChannelRights, FALSE)
        a1 == HandleAlloc(a0.table, e1, ChannelRights, FALSE)
    IN  [status |-> ZX_OK, handle0 |-> a0.handle, handle1 |-> a1.handle,
         table |-> a1.table, endpoints |-> eps1]

\* a channel_write that enqueues on the writing endpoint's own queue
ChannelWrite_OwnQueue(t, initialized, eps, handle, data, data_size, data_null, handles, num_handles, handles_null, oom) ==
    IF handle = ZX_HANDLE_INVALID
    THEN [status |-> ZX_ERR_INVALID_ARGS, table |-> t, initialized |-> initialized, endpoints |-> eps]
    ELSE LET table0 == GetCurrentHandleTable(t, initialized)
             g == HandleGet(table0, handle, ZX_RIGHT_WRITE)
             fail(st) == [status |-> st, table |-> table0, initialized |-> TRUE, endpoints |-> eps]
         IN  IF g.status # ZX_OK THEN fail(g.status)
             ELSE LET endpoint == g.object
                  IN  IF \/ eps[endpoint].is_closed
                         \/ eps[endpoint].peer = NULL
                         \/ eps[eps[endpoint].peer].is_closed
                      THEN fail(ZX_ERR_BAD_HANDLE)
                      ELSE LET c == MessagePacketCreate(data, data_size, data_null,
                                                        handles, num_handles, handles_null, oom)
                               peer == eps[endpoint].peer
                           IN  IF c.status # ZX_OK THEN fail(c.status)
                               ELSE [status |-> ZX_OK, table |-> table0, initialized |-> TRUE,
                                     endpoints |->
                                       [eps EXCEPT ![endpoint].message_queue =
                                          MessageQueueEnqueue(@, NewPacket(@), c.packet)]]

\* channel_write(handle, data, data_size, handles, num_handles): [status, table, endpoints, initialized]
ChannelWrite(t, initialized, eps, handle, data, data_size, data_null, handles, num_handles, handles_null, oom) ==
    IF handle = ZX_HANDLE_INVALID
    THEN [status |-> ZX_ERR_INVALID_ARGS, table |-> t, initialized |-> initialized, endpoints |-> eps]
    ELSE LET table0 == GetCurrentHandleTable(t, initialized)
             g == HandleGet(table0, handle, ZX_RIGHT_WRITE)
             fail(st) == [status |-> st, table |-> table0, initialized |-> TRUE, endpoints |-> eps]
         IN  IF g.status # ZX_OK THEN fail(g.status)
             ELSE LET endpoint == g.object
                  IN  IF \/ eps[endpoint].is_closed
                         \/ eps[endpoint].peer = NULL
                         \/ eps[eps[endpoint].peer].is_closed
                      THEN fail(ZX_ERR_BAD_HANDLE)
                      ELSE LET c == MessagePacketCreate(data, data_size, data_null,
                                                        handles, num_handles, handles_null, oom)
                               peer == eps[endpoint].peer
                           IN  IF c.status # ZX_OK THEN fail(c.status)
                               ELSE [status |-> ZX_OK, table |-> table0, initialized |-> TRUE,
                                     endpoints |->
                                       [eps EXCEPT ![peer].message_queue =
                                          MessageQueueEnqueue(@, NewPacket(@), c.packet)]]

\* a channel_read whose test of the dequeued packet is inverted: it reports
\* BadHandle after having taken the packet off the queue
ChannelRead_InvertedNullTest(t, initialized, eps, handle, data_size, num_handles) ==
    IF handle = ZX_HANDLE_INVALID
    THEN [status |-> ZX_ERR_INVALID_ARGS, table |-> t, initialized |-> initialized,
          endpoints |-> eps, out |-> NoOut]
    ELSE LET table0 == GetCurrentHandleTable(t, initialized)
             g == HandleGet(table0, handle, ZX_RIGHT_READ)
             fail(st) == [status |-> st, table |-> table0, initialized |-> TRUE,
                          endpoints |-> eps, out |-> NoOut]
         IN  IF g.status # ZX_OK THEN fail(g.status)
             ELSE LET endpoint == g.object
                      d == MessageQueueDequeue(eps[endpoint].message_queue)
                  IN  IF eps[endpoint].is_closed THEN fail(ZX_ERR_BAD_HANDLE)
                      ELSE IF MessageQueueIsEmpty(eps[endpoint].message_queue)
                      THEN fail(ZX_ERR_BAD_HANDLE)
                      ELSE IF d.found
                      THEN [fail(ZX_ERR_BAD_HANDLE) EXCEPT
                               !.endpoints = [eps EXCEPT ![endpoint].message_queue = d.queue]]
                      ELSE [status |-> ZX_OK, table |-> table0, initialized |-> TRUE,
                            endpoints |-> [eps EXCEPT ![endpoint].message_queue = d.queue],
                            out |-> [actual_data_size |-> d.packet.data_size,
                                     data_copied |-> data_size >= d.packet.data_size,
                                     data |-> IF data_size >= d.packet.data_size
                                              THEN d.packet.data ELSE <<>>,
                                     actual_num_handles |-> d.packet.num_handles,
                                     handles_copied |-> num_handles >= d.packet.num_handles,
                                     handles |-> IF num_handles >= d.packet.num_handles
                                                 THEN d.packet.handles ELSE <<>>]]

\* a channel_read that leaves the packet on the queue when a buffer of the
\* caller is too small for it
ChannelRead_KeepsUnread(t, initialized, eps, handle, data_size, num_handles) ==
    IF handle = ZX_HANDLE_INVALID
    THEN [status |-> ZX_ERR_INVALID_ARGS, table |-> t, initialized |-> initialized,
          endpoints |-> eps, out |-> NoOut]
    ELSE LET table0 == GetCurrentHandleTable(t, initialized)
             g == HandleGet(table0, handle, ZX_RIGHT_READ)
             fail(st) == [status |-> st, table |-> table0, initialized |-> TRUE,
                          endpoints |-> eps, out |-> NoOut]
         IN  IF g.status # ZX_OK THEN fail(g.status)
             ELSE LET endpoint == g.object
                      d == MessageQueueDequeue(eps[endpoint].message_queue)
                      fits == /\ data_size >= d.packet.data_size
                              /\ num_handles >= d.packet.num_handles
                  IN  IF eps[endpoint].is_closed THEN fail(ZX_ERR_BAD_HANDLE)
                      ELSE IF MessageQueueIsEmpty(eps[endpoint].message_queue)
                      THEN fail(ZX_ERR_BAD_HANDLE)
                      ELSE IF ~d.found THEN fail(ZX_ERR_BAD_HANDLE)
                      ELSE [status |-> ZX_OK, table |-> table0, initialized |-> TRUE,
                            endpoints |-> IF fits
                                          THEN [eps EXCEPT ![endpoint].message_queue = d.queue]
                                          ELSE eps,
                            out |-> [actual_data_size |-> d.packet.data_size,
                                     data_copied |-> data_size >= d.packet.data_size,
                                     data |-> IF data_size >= d.packet.data_size
                                              THEN d.packet.data ELSE <<>>,
                                     actual_num_handles |-> d.packet.num_handles,
                                     handles_copied |-> num_handles >= d.packet.num_handles,
                                     handles |-> IF num_handles >= d.packet.num_handles
                                                 THEN d.packet.handles ELSE <<>>]]

\* channel_read(handle, data, data_size, &actual_data_size, handles, num_handles,
\* &actual_num_handles): [status, table, initialized, endpoints, out]; out is what
\* the caller finds in its buffers and out-parameters (copied says whether the
\* buffer was written); the caller passes non-NULL buffers and out-parameters
ChannelRead(t, initialized, eps, handle, data_size, num_handles) ==
    IF handle = ZX_HANDLE_INVALID
    THEN [status |-> ZX_ERR_INVALID_ARGS, table |-> t, initialized |-> initialized,
          endpoints |-> eps, out |-> NoOut]
    ELSE LET table0 == GetCurrentHandleTable(t, initialized)
             g == HandleGet(table0, handle, ZX_RIGHT_READ)
             fail(st) == [status |-> st, table |-> table0, initialized |-> TRUE,
                          endpoints |-> eps, out |-> NoOut]
         IN  IF g.status # ZX_OK THEN fail(g.status)
             ELSE LET endpoint == g.object
                      d == MessageQueueDequeue(eps[endpoint].message_queue)
                  IN  IF eps[endpoint].is_closed THEN fail(ZX_ERR_BAD_HANDLE)
                      ELSE IF MessageQueueIsEmpty(eps[endpoint].message_queue)
                      THEN fail(ZX_ERR_BAD_HANDLE)
                      ELSE IF ~d.found THEN fail(ZX_ERR_BAD_HANDLE)
                      ELSE [status |-> ZX_OK, table |-> table0, initialized |-> TRUE,
                            endpoints |-> [eps EXCEPT ![endpoint].message_queue = d.queue],
                            out |-> [actual_data_size |-> d.packet.data_size,
                                     data_copied |-> data_size >= d.packet.data_size,
                                     data |-> IF data_size >= d.packet.data_size
                                              THEN d.packet.data ELSE <<>>,
                                     actual_num_handles |-> d.packet.num_handles,
                                     handles_copied |-> num_handles >= d.packet.num_handles,
                                     handles |-> IF num_handles >= d.packet.num_handles
                                                 THEN d.packet.handles ELSE <<>>]]

\* channel_close(handle): [status, table, initialized, endpoints]
ChannelClose(t, initialized, eps, handle) ==
    IF handle = ZX_HANDLE_INVALID
    THEN [status |-> ZX_ERR_INVALID_ARGS, table |-> t, initialized |-> initialized, endpoints |-> eps]
    ELSE LET table0 == GetCurrentHandleTable(t, initialized)
             g == HandleGet(table0, handle, ZX_RIGHT_NONE)
         IN  IF g.status # ZX_OK
             THEN [status |-> g.status, table |-> table0, initialized |-> TRUE, endpoints |-> eps]
             ELSE LET endpoint == g.object
                      eps1 == [eps EXCEPT ![endpoint].is_closed = TRUE,
                                          ![endpoint].message_queue = MessageQueueDestroy(@)]
                      eps2 == IF eps1[endpoint].peer # NULL
                              THEN [eps1 EXCEPT ![eps1[endpoint].peer].peer = NULL]
                              ELSE eps1
                      c == HandleClose(table0, handle)
                  IN  [status |-> c.status, table |-> c.table, initialized |-> TRUE,
                       endpoints |-> eps2]

\* ---- the calls made on channels
\* the (data, data_size, handles) a write is called with: each payload with no
\* handles, "x" with the handle list [1], and a NULL data pointer with size 1
WriteArgs ==
    {[data |-> p, data_size |-> Len(p), data_null |-> FALSE, handles |-> <<>>] : p \in Payloads}
    \cup {[data |-> <<120>>, data_size |-> 1, data_null |-> FALSE, handles |-> <<1>>],
          [data |-> <<>>, data_size |-> 1, data_null |-> TRUE, handles |-> <<>>]}
MaxDataSize == 2
ReadDataSizes == {0, MaxDataSize}
ReadNumHandles == {0, 1}
ChannelHandleIds == 0..(2 * MaxChannels)

\* the sides (k, s) of the handle pairs handed out whose handle is h and has
\* not been closed since
Sides == {<<k, s>> : k \in 1..Len(chans), s \in 1..2}
SidesOf(h) == {ks \in Sides : chans[ks[1]].handle[ks[2]] = h /\ chans[ks[1]].open[ks[2]]}

ChannelCreateCall ==
    /\ Len(chans) < MaxChannels
    /\ LET r == ChannelCreate(table, g_handle_table_initialized, endpoints)
       IN  /\ table' = r.table
           /\ g_handle_table_initialized' = TRUE
           /\ endpoints' = r.endpoints
           /\ last' = [op |-> "channel_create", status |-> r.status,
                       handle0 |-> r.handle0, handle1 |-> r.handle1]
           /\ chans' = Append(chans, [handle |-> <<r.handle0, r.handle1>>,
                                      open |-> <<TRUE, TRUE>>])
           /\ wlog' = Append(wlog, <<<<>>, <<>>>>)
           /\ rlog' = Append(rlog, <<<<>>, <<>>>>)
    /\ UNCHANGED <<vmoVars, queueVars, threads, arena, issued>>

ChannelWriteCall ==
    /\ \A ks \in Sides : Len(wlog[ks[1]][ks[2]]) < MaxWrites
    /\ \E handle \in ChannelHandleIds, args \in WriteArgs, oom \in BOOLEAN :
         LET r == ChannelWrite(table, g_handle_table_initialized, endpoints, handle,
                               args.data, args.data_size, args.data_null,
                               args.handles, Len(args.handles), FALSE, oom)
         IN  /\ table' = r.table
             /\ g_handle_table_initialized' = r.initialized
             /\ endpoints' = r.endpoints
             /\ last' = IF r.status = ZX_OK
                        THEN [op |-> "channel_write", status |-> r.status, handle |-> handle,
                              data |-> args.data, handles |-> args.handles]
                        ELSE [op |-> "channel_write", status |-> r.status, handle |-> handle]
             /\ wlog' = IF r.status = ZX_OK
                        THEN [k \in 1..Len(wlog) |-> [s \in 1..2 |->
                                IF <<k, s>> \in SidesOf(handle)
                                THEN Append(wlog[k][s], args.data) ELSE wlog[k][s]]]
                        ELSE wlog
    /\ UNCHANGED <<vmoVars, queueVars, threads, arena, issued, chans, rlog>>

ChannelReadCall ==
    /\ \E handle \in ChannelHandleIds, data_size \in ReadDataSizes, num_handles \in ReadNumHandles :
         LET r == ChannelRead(table, g_handle_table_initialized, endpoints, handle,
                              data_size, num_handles)
             got == endpoints[HandleGet(table, handle, ZX_RIGHT_READ).object].message_queue
         IN  /\ table' = r.table
             /\ g_handle_table_initialized' = r.initialized
             /\ endpoints' = r.endpoints
             /\ last' = IF r.status = ZX_OK
                        THEN [op |-> "channel_read", status |-> r.status, handle |-> handle,
                              data_size |-> data_size, num_handles |-> num_handles,
                              out |-> r.out]
                        ELSE [op |-> "channel_read", status |-> r.status, handle |-> handle]
             /\ rlog' = IF r.status = ZX_OK
                        THEN [k \in 1..Len(rlog) |-> [s \in 1..2 |->
                                IF <<k, s>> \in SidesOf(handle)
                                THEN Append(rlog[k][s], QueueContents(got)[1].data)
                                ELSE rlog[k][s]]]
                        ELSE rlog
    /\ UNCHANGED <<vmoVars, queueVars, threads, arena, issued, chans, wlog>>

ChannelCloseCall ==
    /\ \E handle \in ChannelHandleIds :
         LET r == ChannelClose(table, g_handle_table_initialized, endpoints, handle)
         IN  /\ table' = r.table
             /\ g_handle_table_initialized' = r.initialized
             /\ endpoints' = r.endpoints
             /\ last' = [op |-> "channel_close", status |-> r.status, handle |-> handle]
             /\ chans' = IF r.status = ZX_OK
                         THEN [k \in 1..Len(chans) |->
                                 [chans[k] EXCEPT !.open = [s \in 1..2 |->
                                     chans[k].open[s] /\ chans[k].handle[s] # handle]]]
                         ELSE chans
    /\ UNCHANGED <<vmoVars, queueVars, threads, arena, issued, wlog, rlog>>

ChanInit ==
    /\ arena = PmmArenaInit(ArenaBase, PAGE_SIZE).arena
    /\ last = NoCall
    /\ IpcIdle
    /\ VmoIdle

ChanNext == ChannelCreateCall \/ ChannelWriteCall \/ ChannelReadCall \/ ChannelCloseCall

ChanSpec == ChanInit /\ [][ChanNext]_vars

\* ---- handle_duplicate on the table of the channels
\* handle_duplicate(get_current_handle_table(), handle, rights, &out), which
\* every caller of channel.h can make: the table the channel handles live in
\* is handed out by get_current_handle_table
GlobalHandleDuplicateCall ==
    /\ table.count <= 2 * MaxChannels
    /\ \E handle \in ChannelHandleIds, rights \in DupRights, oom \in BOOLEAN :
         LET table0 == GetCurrentHandleTable(table, g_handle_table_initialized)
             r == HandleDuplicate(table0, handle, rights, oom)
         IN  /\ table' = r.table
             /\ g_handle_table_initialized' = TRUE
             /\ last' = [op |-> "handle_duplicate", status |-> r.status,
                         source |-> handle, handle |-> r.handle]
    /\ UNCHANGED <<vmoVars, queueVars, threads, arena, endpoints, issued, chans, wlog, rlog>>

ChanDupNext ==
    \/ ChannelCreateCall \/ ChannelWriteCall \/ ChannelReadCall \/ ChannelCloseCall
    \/ GlobalHandleDuplicateCall

ChanDupSpec == ChanInit /\ [][ChanDupNext]_vars

\* ================================================================ channel_write against channel_close
\* Two threads of one process, one in channel_write and one in channel_close,
\* run statement by statement; channel.c takes no lock and uses no atomic
\* access, so every interleaving of the statements below can happen.  A
\* position is named after what the statement at it does.  handle_get,
\* handle_close, message_queue_enqueue and message_queue_destroy are each
\* taken as one step, and the mallocs of message_packet_create succeed.

\* the handles the threads are called with: those channel_create returned
RaceHandles == UNION {SeqRange(chans[k].handle) : k \in 1..Len(chans)}
RacePayloads == {<<120>>, <<104, 105>>}

WriteReturn(w, st) == [w EXCEPT !.pc = "done", !.status = st]

\* thread w calls channel_write(handle, data, Len(data), NULL, 0)
WriteInvoke ==
    /\ threads.w.pc = "idle"
    /\ \E handle \in RaceHandles, data \in RacePayloads :
         threads' = [threads EXCEPT !.w = [NoWrite EXCEPT !.pc = "lookup", !.handle = handle,
                                                          !.data = data]]
    /\ UNCHANGED <<vmoVars, queueVars, arena, table, g_handle_table_initialized, endpoints, last,
                   issued, chans, wlog, rlog>>

\* channel_write up to the return after handle_get
WriteLookup ==
    /\ threads.w.pc = "lookup"
    /\ LET w == threads.w
           table0 == GetCurrentHandleTable(table, g_handle_table_initialized)
           g == HandleGet(table0, w.handle, ZX_RIGHT_WRITE)
       IN  IF w.handle = ZX_HANDLE_INVALID
           THEN /\ threads' = [threads EXCEPT !.w = WriteReturn(w, ZX_ERR_INVALID_ARGS)]
                /\ UNCHANGED <<table, g_handle_table_initialized>>
           ELSE /\ table' = table0
                /\ g_handle_table_initialized' = TRUE
                /\ threads' = [threads EXCEPT !.w =
                      IF g.status # ZX_OK THEN WriteReturn(w, g.status)
                      ELSE [w EXCEPT !.pc = "test_closed", !.endpoint = g.object]]
    /\ UNCHANGED <<vmoVars, queueVars, arena, endpoints, last, issued, chans, wlog, rlog>>

\* endpoint->is_closed ||
WriteTestClosed ==
    /\ threads.w.pc = "test_closed"
    /\ LET w == threads.w
       IN  threads' = [threads EXCEPT !.w =
              IF endpoints[w.endpoint].is_closed THEN WriteReturn(w, ZX_ERR_BAD_HANDLE)
              ELSE [w EXCEPT !.pc = "test_peer"]]
    /\ UNCHANGED <<vmoVars, queueVars, arena, table, g_handle_table_initialized, endpoints, last,
                   issued, chans, wlog, rlog>>

\* !endpoint->peer ||
WriteTestPeer ==
    /\ threads.w.pc = "test_peer"
    /\ LET w == threads.w
       IN  threads' = [threads EXCEPT !.w =
              IF endpoints[w.endpoint].peer = NULL THEN WriteReturn(w, ZX_ERR_BAD_HANDLE)
              ELSE [w EXCEPT !.pc = "test_peer_closed", !.peer = endpoints[w.endpoint].peer]]
    /\ UNCHANGED <<vmoVars, queueVars, arena, table, g_handle_table_initialized, endpoints, last,
                   issued, chans, wlog, rlog>>

\* endpoint->peer->is_closed: the build may load endpoint->peer again or use
\* the value loaded for the test before
WriteTestPeerClosed ==
    /\ threads.w.pc = "test_peer_closed"
    /\ LET w == threads.w
       IN  \E peer \in {w.peer, endpoints[w.endpoint].peer} :
             /\ peer # NULL
             /\ threads' = [threads EXCEPT !.w =
                   IF endpoints[peer].is_closed THEN WriteReturn(w, ZX_ERR_BAD_HANDLE)
                   ELSE [w EXCEPT !.pc = "enqueue"]]
    /\ UNCHANGED <<vmoVars, queueVars, arena, table, g_handle_table_initialized, endpoints, last,
                   issued, chans, wlog, rlog>>

\* message_packet_create, message_queue_enqueue(&endpoint->peer->message_queue,
\* packet), return ZX_OK: endpoint->peer is loaded again; message_queue is the
\* first member of channel_endpoint_t, so with a NULL peer the queue passed is
\* NULL and message_queue_enqueue returns at once
WriteEnqueue ==
    /\ threads.w.pc = "enqueue"
    /\ LET w == threads.w
           c == MessagePacketCreate(w.data, Len(w.data), FALSE, <<>>, 0, TRUE, FALSE)
           peer == endpoints[w.endpoint].peer
           before == threads.c.pc \in {"idle", "lookup"}
       IN  IF peer = NULL
           THEN /\ endpoints' = endpoints
                /\ threads' = [threads EXCEPT !.w = WriteReturn(w, ZX_OK)]
           ELSE /\ endpoints' = [endpoints EXCEPT ![peer].message_queue =
                                    MessageQueueEnqueue(@, NewPacket(@), c.packet)]
                /\ threads' = [threads EXCEPT !.w =
                      [WriteReturn(w, ZX_OK) EXCEPT !.enqueued = TRUE, !.before_close = before]]
    /\ UNCHANGED <<vmoVars, queueVars, arena, table, g_handle_table_initialized, last,
                   issued, chans, wlog, rlog>>

CloseReturn(c, st) == [c EXCEPT !.pc = "done", !.status = st]

\* thread c calls channel_close(handle)
CloseInvoke ==
    /\ threads.c.pc = "idle"
    /\ \E handle \in RaceHandles :
         threads' = [threads EXCEPT !.c = [NoClose EXCEPT !.pc = "lookup", !.handle = handle]]
    /\ UNCHANGED <<vmoVars, queueVars, arena, table, g_handle_table_initialized, endpoints, last,
                   issued, chans, wlog, rlog>>

\* channel_close up to the return after handle_get
CloseLookup ==
    /\ threads.c.pc = "lookup"
    /\ LET c == threads.c
           table0 == GetCurrentHandleTable(table, g_handle_table_initialized)
           g == HandleGet(table0, c.handle, ZX_RIGHT_NONE)
       IN  IF c.handle = ZX_HANDLE_INVALID
           THEN /\ threads' = [threads EXCEPT !.c = CloseReturn(c, ZX_ERR_INVALID_ARGS)]
                /\ UNCHANGED <<table, g_handle_table_initialized>>
           ELSE /\ table' = table0
                /\ g_handle_table_initialized' = TRUE
                /\ threads' = [threads EXCEPT !.c =
                      IF g.status # ZX_OK THEN CloseReturn(c, g.status)
                      ELSE [c EXCEPT !.pc = "mark_closed", !.endpoint = g.object]]
    /\ UNCHANGED <<vmoVars, queueVars, arena, endpoints, last, issued, chans, wlog, rlog>>

\* endpoint->is_closed = true
CloseMarkClosed ==
    /\ threads.c.pc = "mark_closed"
    /\ endpoints' = [endpoints EXCEPT ![threads.c.endpoint].is_closed = TRUE]
    /\ threads' = [threads EXCEPT !.c.pc = "destroy_queue"]
    /\ UNCHANGED <<vmoVars, queueVars, arena, table, g_handle_table_initialized, last,
                   issued, chans, wlog, rlog>>

\* message_queue_destroy(&endpoint->message_queue)
CloseDestroyQueue ==
    /\ threads.c.pc = "destroy_queue"
    /\ endpoints' = [endpoints EXCEPT ![threads.c.endpoint].message_queue = MessageQueueDestroy(@)]
    /\ threads' = [threads EXCEPT !.c.pc = "clear_peer"]
    /\ UNCHANGED <<vmoVars, queueVars, arena, table, g_handle_table_initialized, last,
                   issued, chans, wlog, rlog>>

\* if (endpoint->peer) endpoint->peer->peer = NULL
CloseClearPeer ==
    /\ threads.c.pc = "clear_peer"
    /\ LET peer == endpoints[threads.c.endpoint].peer
       IN  endpoints' = IF peer # NULL THEN [endpoints EXCEPT ![peer].peer = NULL]
                        ELSE endpoints
    /\ threads' = [threads EXCEPT !.c.pc = "close_handle"]
    /\ UNCHANGED <<vmoVars, queueVars, arena, table, g_handle_table_initialized, last,
                   issued, chans, wlog, rlog>>

\* return handle_close(table, handle)
CloseHandle ==
    /\ threads.c.pc = "close_handle"
    /\ LET r == HandleClose(table, threads.c.handle)
       IN  /\ table' = r.table
           /\ threads' = [threads EXCEPT !.c = CloseReturn(threads.c, r.status)]
    /\ UNCHANGED <<vmoVars, queueVars, arena, g_handle_table_initialized, endpoints, last,
                   issued, chans, wlog, rlog>>

\* the process has made its first channel_create and nothing else
RaceInit ==
    /\ QueueIdle
    /\ arena = PmmArenaInit(ArenaBase, PAGE_SIZE).arena
    /\ VmoIdle
    /\ issued = <<>>
    /\ threads = NoThreads
    /\ LET r == ChannelCreate([num_buckets |-> 0, buckets |-> <<>>, count |-> 0], FALSE, <<>>)
       IN  /\ table = r.table
           /\ g_handle_table_initialized = TRUE
           /\ endpoints = r.endpoints
           /\ last = [op |-> "channel_create", status |-> r.status,
                      handle0 |-> r.handle0, handle1 |-> r.handle1]
           /\ chans = <<[handle |-> <<r.handle0, r.handle1>>, open |-> <<TRUE, TRUE>>]>>
           /\ wlog = <<<<<<>>, <<>>>>>>
           /\ rlog = <<<<<<>>, <<>>>>>>

RaceNext ==
    \/ WriteInvoke \/ WriteLookup \/ WriteTestClosed \/ WriteTestPeer
    \/ WriteTestPeerClosed \/ WriteEnqueue
    \/ CloseInvoke \/ CloseLookup \/ CloseMarkClosed \/ CloseDestroyQueue
    \/ CloseClearPeer \/ CloseHandle

RaceSpec == RaceInit /\ [][RaceNext]_vars

\* ---------------------------------------------------------------- channel_write against channel_read
\* One thread in channel_write (the steps above) and one in channel_read;
\* message_queue_dequeue with the copies and message_packet_destroy that
\* follow it is taken as one step.

ReadReturn(r, st) == [r EXCEPT !.pc = "done", !.status = st]

\* thread r calls channel_read(handle, data, data_size, &actual_data_size,
\* handles, num_handles, &actual_num_handles)
ReadInvoke ==
    /\ threads.r.pc = "idle"
    /\ \E handle \in RaceHandles, data_size \in ReadDataSizes :
         threads' = [threads EXCEPT !.r =
            [NoRead EXCEPT !.pc = "lookup", !.handle = handle, !.data_size = data_size,
                           !.after_write = (threads.w.pc = "done" /\ threads.w.status = ZX_OK)]]
    /\ UNCHANGED <<vmoVars, queueVars, arena, table, g_handle_table_initialized, endpoints, last,
                   issued, chans, wlog, rlog>>

\* channel_read up to the return after handle_get
ReadLookup ==
    /\ threads.r.pc = "lookup"
    /\ LET r == threads.r
           table0 == GetCurrentHandleTable(table, g_handle_table_initialized)
           g == HandleGet(table0, r.handle, ZX_RIGHT_READ)
       IN  IF r.handle = ZX_HANDLE_INVALID
           THEN /\ threads' = [threads EXCEPT !.r = ReadReturn(r, ZX_ERR_INVALID_ARGS)]
                /\ UNCHANGED <<table, g_handle_table_initialized>>
           ELSE /\ table' = table0
                /\ g_handle_table_initialized' = TRUE
                /\ threads' = [threads EXCEPT !.r =
                      IF g.status # ZX_OK THEN ReadReturn(r, g.status)
                      ELSE [r EXCEPT !.pc = "test_closed", !.endpoint = g.object]]
    /\ UNCHANGED <<vmoVars, queueVars, arena, endpoints, last, issued, chans, wlog, rlog>>

\* if (endpoint->is_closed) return ZX_ERR_BAD_HANDLE
ReadTestClosed ==
    /\ threads.r.pc = "test_closed"
    /\ LET r == threads.r
       IN  threads' = [threads EXCEPT !.r =
              IF endpoints[r.endpoint].is_closed THEN ReadReturn(r, ZX_ERR_BAD_HANDLE)
              ELSE [r EXCEPT !.pc = "test_empty"]]
    /\ UNCHANGED <<vmoVars, queueVars, arena, table, g_handle_table_initialized, endpoints, last,
                   issued, chans, wlog, rlog>>

\* if (message_queue_is_empty(&endpoint->message_queue)) return ZX_ERR_BAD_HANDLE
ReadTestEmpty ==
    /\ threads.r.pc = "test_empty"
    /\ LET r == threads.r
       IN  threads' = [threads EXCEPT !.r =
              IF MessageQueueIsEmpty(endpoints[r.endpoint].message_queue)
              THEN ReadReturn(r, ZX_ERR_BAD_HANDLE)
              ELSE [r EXCEPT !.pc = "dequeue"]]
    /\ UNCHANGED <<vmoVars, queueVars, arena, table, g_handle_table_initialized, endpoints, last,
                   issued, chans, wlog, rlog>>

\* message_queue_dequeue, the test of its result, the copies to the caller,
\* message_packet_destroy, return ZX_OK
ReadDequeue ==
    /\ threads.r.pc = "dequeue"
    /\ LET r == threads.r
           d == MessageQueueDequeue(endpoints[r.endpoint].message_queue)
       IN  IF ~d.found
           THEN /\ threads' = [threads EXCEPT !.r = ReadReturn(r, ZX_ERR_BAD_HANDLE)]
                /\ UNCHANGED endpoints
           ELSE /\ endpoints' = [endpoints EXCEPT ![r.endpoint].message_queue = d.queue]
                /\ threads' = [threads EXCEPT !.r =
                      [ReadReturn(r, ZX_OK) EXCEPT !.out =
                          [actual_data_size |-> d.packet.data_size,
                           data_copied |-> r.data_size >= d.packet.data_size,
                           data |-> IF r.data_size >= d.packet.data_size
                                    THEN d.packet.data ELSE <<>>,
                           actual_num_handles |-> d.packet.num_handles,
                           handles_copied |-> r.num_handles >= d.packet.num_handles,
                           handles |-> IF r.num_handles >= d.packet.num_handles
                                       THEN d.packet.handles ELSE <<>>]]]
    /\ UNCHANGED <<vmoVars, queueVars, arena, table, g_handle_table_initialized, last,
                   issued, chans, wlog, rlog>>

\* the process has made its first channel_create and nothing else, or has
\* gone on with channel_write(h0, "x"), channel_close(h0) and a second
\* channel_create
ReadWriteInit ==
    /\ QueueIdle
    /\ arena = PmmArenaInit(ArenaBase, PAGE_SIZE).arena
    /\ VmoIdle
    /\ issued = <<>>
    /\ threads = NoThreads
    /\ g_handle_table_initialized = TRUE
    /\ LET c1 == ChannelCreate([num_buckets |-> 0, buckets |-> <<>>, count |-> 0], FALSE, <<>>)
           w == ChannelWrite(c1.table, TRUE, c1.endpoints, c1.handle0,
                             <<120>>, 1, FALSE, <<>>, 0, TRUE, FALSE)
           x == ChannelClose(w.table, TRUE, w.endpoints, c1.handle0)
           c2 == ChannelCreate(x.table, TRUE, x.endpoints)
       IN  \/ /\ table = c1.table
              /\ endpoints = c1.endpoints
              /\ last = [op |-> "channel_create", status |-> c1.status,
                         handle0 |-> c1.handle0, handle1 |-> c1.handle1]
              /\ chans = <<[handle |-> <<c1.handle0, c1.handle1>>, open |-> <<TRUE, TRUE>>]>>
              /\ wlog = <<<<<<>>, <<>>>>>>
              /\ rlog = <<<<<<>>, <<>>>>>>
           \/ /\ table = c2.table
              /\ endpoints = c2.endpoints
              /\ last = [op |-> "channel_create", status |-> c2.status,
                         handle0 |-> c2.handle0, handle1 |-> c2.handle1]
              /\ chans = <<[handle |-> <<c1.handle0, c1.handle1>>, open |-> <<FALSE, TRUE>>],
                           [handle |-> <<c2.handle0, c2.handle1>>, open |-> <<TRUE, TRUE>>]>>
              /\ wlog = <<<<<<<<120>>>>, <<>>>>, <<<<>>, <<>>>>>>
              /\ rlog = <<<<<<>>, <<>>>>, <<<<>>, <<>>>>>>

ReadWriteNext ==
    \/ WriteInvoke \/ WriteLookup \/ WriteTestClosed \/ WriteTestPeer
    \/ WriteTestPeerClosed \/ WriteEnqueue
    \/ ReadInvoke \/ ReadLookup \/ ReadTestClosed \/ ReadTestEmpty \/ ReadDequeue

ReadWriteSpec == ReadWriteInit /\ [][ReadWriteNext]_vars

\* ================================================================ VMO bootstrap, page fault
PAGE_FAULT_FLAG_READ == 1
PAGE_FAULT_FLAG_WRITE == 2
PAGE_FAULT_FLAG_EXEC == 4
PAGE_FAULT_FLAG_USER == 8

\* flags & flag, taken as a truth value, for a flag of one bit
FlagSet(flags, flag) == (flags \div flag) % 2 = 1

\* an init whose page count rounds the size down
VmoBootstrapInit_RoundsDown(vs, v, size) ==
    IF v = NULL \/ size = 0
    THEN [status |-> ZX_ERR_INVALID_ARGS, vmos |-> vs]
    ELSE LET page_count == size \div PAGE_SIZE
         IN  [status |-> ZX_OK,
              vmos |-> [vs EXCEPT ![v] = [size |-> size, page_count |-> page_count,
                                          pages |-> [i \in 1..page_count |-> NULL],
                                          ptr |-> "array"]]]

\* vmo_bootstrap_init(vmo, arena, size): [status, vmos]; calloc is taken to
\* succeed, as malloc is in channel_create
VmoBootstrapInit(vs, v, size) ==
    IF v = NULL \/ size = 0
    THEN [status |-> ZX_ERR_INVALID_ARGS, vmos |-> vs]
    ELSE LET page_count == (size + PAGE_SIZE - 1) \div PAGE_SIZE
         IN  [status |-> ZX_OK,
              vmos |-> [vs EXCEPT ![v] = [size |-> size, page_count |-> page_count,
                                          pages |-> [i \in 1..page_count |-> NULL],
                                          ptr |-> "array"]]]

\* a commit_page that stores the head of the free list without taking it
VmoBootstrapCommitPage_Peeks(vs, a, v, page_index) ==
    IF v = NULL
    THEN [status |-> ZX_ERR_INVALID_ARGS, vmos |-> vs, arena |-> a]
    ELSE IF page_index >= vs[v].page_count
    THEN [status |-> ZX_ERR_INVALID_ARGS, vmos |-> vs, arena |-> a]
    ELSE IF vs[v].pages[page_index + 1] # NULL
    THEN [status |-> ZX_OK, vmos |-> vs, arena |-> a]
    ELSE IF a.free_list = NULL
    THEN [status |-> ZX_ERR_NO_MEMORY, vmos |-> vs, arena |-> a]
    ELSE [status |-> ZX_OK,
          vmos |-> [vs EXCEPT ![v].pages[page_index + 1] = a.free_list],
          arena |-> [a EXCEPT !.page_array[a.free_list].state = VM_PAGE_STATE_ALLOCATED,
                              !.page_array[a.free_list].ref_count = 1]]

\* a commit_page without the test for a slot that is already committed
VmoBootstrapCommitPage_NoSlotTest(vs, a, v, page_index) ==
    IF v = NULL
    THEN [status |-> ZX_ERR_INVALID_ARGS, vmos |-> vs, arena |-> a]
    ELSE IF page_index >= vs[v].page_count
    THEN [status |-> ZX_ERR_INVALID_ARGS, vmos |-> vs, arena |-> a]
    ELSE LET r == PmmAllocPage(a)
         IN  IF r.status # ZX_OK
             THEN [status |-> r.status, vmos |-> vs, arena |-> r.arena]
             ELSE [status |-> ZX_OK,
                   vmos |-> [vs EXCEPT ![v].pages[page_index + 1] = r.page],
                   arena |-> r.arena]

\* a commit_page that takes an index beyond the VMO for its last page
VmoBootstrapCommitPage_Clamps(vs, a, v, page_index) ==
    IF v = NULL
    THEN [status |-> ZX_ERR_INVALID_ARGS, vmos |-> vs, arena |-> a]
    ELSE IF vs[v].page_count = 0
    THEN [status |-> ZX_ERR_INVALID_ARGS, vmos |-> vs, arena |-> a]
    ELSE LET i == IF page_index >= vs[v].page_count THEN vs[v].page_count - 1 ELSE page_index
         IN  IF vs[v].pages[i + 1] # NULL
             THEN [status |-> ZX_OK, vmos |-> vs, arena |-> a]
             ELSE LET r == PmmAllocPage(a)
                  IN  IF r.status # ZX_OK
                      THEN [status |-> r.status, vmos |-> vs, arena |-> r.arena]
                      ELSE [status |-> ZX_OK,
                            vmos |-> [vs EXCEPT ![v].pages[i + 1] = r.page],
                            arena |-> r.arena]

\* vmo_bootstrap_commit_page(vmo, arena, page_index): [status, vmos, arena]
VmoBootstrapCommitPage(vs, a, v, page_index) ==
    IF v = NULL
    THEN [status |-> ZX_ERR_INVALID_ARGS, vmos |-> vs, arena |-> a]
    ELSE IF page_index >= vs[v].page_count
    THEN [status |-> ZX_ERR_INVALID_ARGS, vmos |-> vs, arena |-> a]
    ELSE IF vs[v].pages[page_index + 1] # NULL
    THEN [status |-> ZX_OK, vmos |-> vs, arena |-> a]
    ELSE LET r == PmmAllocPage(a)
         IN  IF r.status # ZX_OK
             THEN [status |-> r.status, vmos |-> vs, arena |-> r.arena]
             ELSE [status |-> ZX_OK,
                   vmos |-> [vs EXCEPT ![v].pages[page_index + 1] = r.page],
                   arena |-> r.arena]

\* the loop of vmo_bootstrap_destroy from slot i on; the status of
\* pmm_arena_free_page is dropped
RECURSIVE VmoDestroyLoop(_, _, _, _)
VmoDestroyLoop(vs, a, v, i) ==
    IF i >= vs[v].page_count THEN [vmos |-> vs, arena |-> a]
    ELSE IF vs[v].pages[i + 1] # NULL
    THEN VmoDestroyLoop([vs EXCEPT ![v].pages[i + 1] = NULL],
                        PmmFreePage(a, vs[v].pages[i + 1]).arena, v, i + 1)
    ELSE VmoDestroyLoop(vs, a, v, i + 1)

\* a destroy that releases the pages and leaves the VMO as it was
VmoBootstrapDestroy_KeepsSlots(vs, a, v) ==
    IF v = NULL THEN [vmos |-> vs, arena |-> a]
    ELSE [vmos |-> vs, arena |-> VmoDestroyLoop(vs, a, v, 0).arena]

\* a destroy whose loop starts at slot 1
VmoBootstrapDestroy_SkipsFirst(vs, a, v) ==
    IF v = NULL THEN [vmos |-> vs, arena |-> a]
    ELSE LET r == VmoDestroyLoop(vs, a, v, 1)
         IN  [vmos |-> [r.vmos EXCEPT ![v] = [size |-> 0, page_count |-> 0,
                                              pages |-> <<>>, ptr |-> "null"]],
              arena |-> r.arena]

\* vmo_bootstrap_destroy(vmo, arena): [vmos, arena]
VmoBootstrapDestroy(vs, a, v) ==
    IF v = NULL THEN [vmos |-> vs, arena |-> a]
    ELSE LET r == VmoDestroyLoop(vs, a, v, 0)
         IN  [vmos |-> [r.vmos EXCEPT ![v] = [size |-> 0, page_count |-> 0,
                                              pages |-> <<>>, ptr |-> "null"]],
              arena |-> r.arena]

\* a page_fault_handle that rounds the fault address up to a page index
PageFaultHandle_RoundsUp(vs, a, handler, fault_addr, flags) ==
    IF handler = NULL
    THEN [status |-> ZX_ERR_INVALID_ARGS, vmos |-> vs, arena |-> a]
    ELSE IF FlagSet(flags, PAGE_FAULT_FLAG_WRITE) /\ ~FlagSet(flags, PAGE_FAULT_FLAG_USER)
    THEN [status |-> ZX_ERR_INVALID_ARGS, vmos |-> vs, arena |-> a]
    ELSE LET page_index == (fault_addr + PAGE_SIZE - 1) \div PAGE_SIZE
         IN  IF page_index >= vs[handler].page_count
             THEN [status |-> ZX_ERR_NOT_FOUND, vmos |-> vs, arena |-> a]
             ELSE IF vs[handler].pages[page_index + 1] = NULL
             THEN VmoBootstrapCommitPage(vs, a, handler, page_index)
             ELSE [status |-> ZX_OK, vmos |-> vs, arena |-> a]

\* a page_fault_handle without the test of the flags
PageFaultHandle_NoFlagTest(vs, a, handler, fault_addr, flags) ==
    IF handler = NULL
    THEN [status |-> ZX_ERR_INVALID_ARGS, vmos |-> vs, arena |-> a]
    ELSE LET page_index == fault_addr \div PAGE_SIZE
         IN  IF page_index >= vs[handler].page_count
             THEN [status |-> ZX_ERR_NOT_FOUND, vmos |-> vs, arena |-> a]
             ELSE IF vs[handler].pages[page_index + 1] = NULL
             THEN VmoBootstrapCommitPage(vs, a, handler, page_index)
             ELSE [status |-> ZX_OK, vmos |-> vs, arena |-> a]

\* a page_fault_handle that drops the status of commit_page
PageFaultHandle_DropsStatus(vs, a, handler, fault_addr, flags) ==
    IF handler = NULL
    THEN [status |-> ZX_ERR_INVALID_ARGS, vmos |-> vs, arena |-> a]
    ELSE IF FlagSet(flags, PAGE_FAULT_FLAG_WRITE) /\ ~FlagSet(flags, PAGE_FAULT_FLAG_USER)
    THEN [status |-> ZX_ERR_INVALID_ARGS, vmos |-> vs, arena |-> a]
    ELSE LET page_index == fault_addr \div PAGE_SIZE
         IN  IF page_index >= vs[handler].page_count
             THEN [status |-> ZX_ERR_NOT_FOUND, vmos |-> vs, arena |-> a]
             ELSE IF vs[handler].pages[page_index + 1] = NULL
             THEN [VmoBootstrapCommitPage(vs, a, handler, page_index) EXCEPT !.status = ZX_OK]
             ELSE [status |-> ZX_OK, vmos |-> vs, arena |-> a]

\* page_fault_handle(handler, fault_addr, flags): [status, vmos, arena].
\* page_fault_handler_init only stores its two pointers: handler v is the one
\* bound to VMO v and the arena
PageFaultHandle(vs, a, handler, fault_addr, flags) ==
    IF handler = NULL
    THEN [status |-> ZX_ERR_INVALID_ARGS, vmos |-> vs, arena |-> a]
    ELSE IF FlagSet(flags, PAGE_FAULT_FLAG_WRITE) /\ ~FlagSet(flags, PAGE_FAULT_FLAG_USER)
    THEN [status |-> ZX_ERR_INVALID_ARGS, vmos |-> vs, arena |-> a]
    ELSE LET page_index == fault_addr \div PAGE_SIZE
         IN  IF page_index >= vs[handler].page_count
             THEN [status |-> ZX_ERR_NOT_FOUND, vmos |-> vs, arena |-> a]
             ELSE IF vs[handler].pages[page_index + 1] = NULL
             THEN VmoBootstrapCommitPage(vs, a, handler, page_index)
             ELSE [status |-> ZX_OK, vmos |-> vs, arena |-> a]

\* ---------------------------------------------------------------- VMO calls
\* the smallest size, which is less than a page, the largest, which is whole
\* pages, and 0
VmoSizes == {0, 1, MaxVmoPages * PAGE_SIZE}

\* the first and the last byte of every page, and the first byte past the largest VMO
FaultAddrs ==
    {k * PAGE_SIZE : k \in 0..MaxVmoPages} \cup {(k * PAGE_SIZE) - 1 : k \in 1..MaxVmoPages}

\* every combination of the four flag bits
FaultFlags == 0..(2 * PAGE_FAULT_FLAG_USER - 1)

\* the faults taken: a user read at the last byte of every page, at the first
\* byte past the smallest VMO and at the first byte past the largest, and a
\* write without User at the first byte
Faults ==
    {[addr |-> (k * PAGE_SIZE) - 1, flags |-> PAGE_FAULT_FLAG_READ + PAGE_FAULT_FLAG_USER] :
        k \in 1..MaxVmoPages}
    \cup {[addr |-> k * PAGE_SIZE, flags |-> PAGE_FAULT_FLAG_READ + PAGE_FAULT_FLAG_USER] :
        k \in {1, MaxVmoPages}}
    \cup {[addr |-> 0, flags |-> PAGE_FAULT_FLAG_WRITE]}

\* the fields of VMO v can be read: it was initialised, and its pages pointer
\* is an array or goes with a page_count of 0
Usable(v) ==
    IF v = NULL THEN TRUE
    ELSE \/ vmos[v].ptr = "array"
         \/ vmos[v].ptr = "null" /\ vmos[v].page_count = 0

\* the pages held in the slots of VMO v
Committed(vs, v) == {vs[v].pages[i] : i \in 1..Len(vs[v].pages)} \ {NULL}

\* the history after a call made for VMO actor left the arena as a2: a VMO
\* that did not have the arena to itself has no free_count to come back to
Others(actor, a2) ==
    [w \in VmoIds |-> IF w # actor /\ a2 # arena THEN NULL ELSE vhist[w]]

\* the callers initialise a vmo_t that holds no slot array (vm_test.cc: every
\* init is of a new object)
VmoInitCall ==
    \E v \in VmoIds \cup {NULL}, size \in VmoSizes :
        /\ v # NULL => vmos[v].ptr # "array"
        /\ LET r == VmoBootstrapInit(vmos, v, size)
           IN  /\ vmos' = r.vmos
               /\ vhist' = IF r.status = ZX_OK
                           THEN [vhist EXCEPT ![v] = arena.free_count]
                           ELSE vhist
               /\ last' = [op |-> "vmo_init", status |-> r.status, vmo |-> v]
        /\ UNCHANGED <<arena, ipcVars>>

CommitPageCall ==
    \E v \in VmoIds \cup {NULL}, page_index \in 0..MaxVmoPages :
        /\ Usable(v)
        /\ LET r == VmoBootstrapCommitPage(vmos, arena, v, page_index)
           IN  /\ vmos' = r.vmos
               /\ arena' = r.arena
               /\ vhist' = Others(v, r.arena)
               /\ last' = IF r.status = ZX_OK
                          THEN [op |-> "commit_page", status |-> r.status, vmo |-> v,
                                index |-> page_index, was |-> vmos[v].pages[page_index + 1]]
                          ELSE [op |-> "commit_page", status |-> r.status, vmo |-> v]
        /\ UNCHANGED ipcVars

DestroyCall ==
    \E v \in VmoIds \cup {NULL} :
        /\ Usable(v)
        /\ LET r == VmoBootstrapDestroy(vmos, arena, v)
           IN  /\ vmos' = r.vmos
               /\ arena' = r.arena
               /\ vhist' = IF v = NULL THEN vhist
                           ELSE [Others(v, r.arena) EXCEPT ![v] = NULL]
               /\ last' = IF v = NULL
                          THEN [op |-> "vmo_destroy", status |-> ZX_OK, vmo |-> v]
                          ELSE [op |-> "vmo_destroy", status |-> ZX_OK, vmo |-> v,
                                base |-> vhist[v], pages |-> Committed(vmos, v)]
        /\ UNCHANGED ipcVars

PageFaultCall ==
    \E handler \in VmoIds \cup {NULL}, fault \in Faults :
        /\ Usable(handler)
        /\ LET fault_addr == fault.addr
               r == PageFaultHandle(vmos, arena, handler, fault_addr, fault.flags)
           IN  /\ vmos' = r.vmos
               /\ arena' = r.arena
               /\ vhist' = Others(handler, r.arena)
               /\ last' = IF r.status = ZX_OK
                          THEN [op |-> "page_fault", status |-> r.status, vmo |-> handler,
                                addr |-> fault_addr,
                                was |-> vmos[handler].pages[(fault_addr \div PAGE_SIZE) + 1]]
                          ELSE [op |-> "page_fault", status |-> r.status, vmo |-> handler]
        /\ UNCHANGED ipcVars

VmoInit ==
    /\ \E n \in 1..MaxVmoArena : arena = PmmArenaInit(ArenaBase, n * PAGE_SIZE).arena
    /\ last = NoCall
    /\ IpcIdle
    /\ VmoIdle

VmoNext == VmoInitCall \/ CommitPageCall \/ DestroyCall \/ PageFaultCall

VmoSpec == VmoInit /\ [][VmoNext]_vars

\* ================================================================ claims: PMM

FreePages(a) == {p \in Pages(a) : a.page_array[p].state = VM_PAGE_STATE_FREE}

\* C1: after init and any sequence of alloc_page / free_page calls, free_count
\* equals the number of Free descriptors and the length of the free list, and
\* the free list holds exactly the Free descriptors, each once.
C1_FreeCountExact ==
    LET fl == FreeList(arena)
    IN  /\ arena.free_count = Cardinality(FreePages(arena))
        /\ arena.free_count = Len(fl)
        /\ SeqRange(fl) = FreePages(arena)
        /\ Cardinality(SeqRange(fl)) = Len(fl)

\* a call to free_page on a Free descriptor was refused while the arena is part
\* allocated, part free
C1_Witness ==
    /\ last.op = "free_page"
    /\ last.status = ZX_ERR_INVALID_ARGS
    /\ arena.free_count > 0
    /\ arena.free_count < Cardinality(Pages(arena))
    /\ arena.free_list # NULL
    /\ arena.page_array[arena.free_list].next # NULL

\* C10: every descriptor has state Free iff ref_count is 0, and the descriptor
\* alloc_page just returned is Allocated with ref_count 1.
C10_FreeIffNoRefs ==
    /\ \A p \in Pages(arena) :
          (arena.page_array[p].state = VM_PAGE_STATE_FREE) <=> (arena.page_array[p].ref_count = 0)
    /\ (last.op = "alloc_page" /\ last.status = ZX_OK) =>
          /\ arena.page_array[last.page].state = VM_PAGE_STATE_ALLOCATED
          /\ arena.page_array[last.page].ref_count = 1

\* alloc_page has just returned a descriptor while another page carries an alias
C10_Witness ==
    /\ last.op = "alloc_page"
    /\ last.status = ZX_OK
    /\ \E p \in Pages(arena) : p # last.page /\ arena.page_array[p].ref_count = 2
    /\ \E p \in Pages(arena) : arena.page_array[p].state = VM_PAGE_STATE_FREE

\* n calls of alloc_page in a row from arena a: the statuses, the descriptors
\* returned and the arena left
RECURSIVE AllocRun(_, _)
AllocRun(a, n) ==
    IF n = 0 THEN [statuses |-> <<>>, pages |-> <<>>, arena |-> a]
    ELSE LET r == PmmAllocPage(a)
             rest == AllocRun(r.arena, n - 1)
         IN  [statuses |-> <<r.status>> \o rest.statuses,
              pages |-> <<r.page>> \o rest.pages,
              arena |-> rest.arena]

\* C11: on an arena just initialised with N pages, the first N alloc_page
\* calls return Ok with N pairwise distinct descriptors and the (N+1)-th
\* returns NoMemory, leaving free_count 0, the free list empty and every
\* descriptor as it was; and whenever alloc_page reports NoMemory the arena
\* has no Free page.
C11_ExhaustionAfterN ==
    /\ last = NoCall =>
         LET n == Cardinality(Pages(arena))
             run == AllocRun(arena, n)
             over == PmmAllocPage(run.arena)
         IN  /\ \A i \in 1..n : run.statuses[i] = ZX_OK
             /\ SeqRange(run.pages) = Pages(arena)
             /\ Cardinality(SeqRange(run.pages)) = n
             /\ over.status = ZX_ERR_NO_MEMORY
             /\ over.arena = run.arena
             /\ over.arena.free_count = 0
             /\ FreeList(over.arena) = <<>>
    /\ (last.op = "alloc_page" /\ last.status = ZX_ERR_NO_MEMORY) =>
         /\ arena.free_count = 0
         /\ FreeList(arena) = <<>>
         /\ FreePages(arena) = {}

\* the (N+1)-th alloc_page has failed on an arena of at least two pages, each
\* handed out once
C11_Witness ==
    /\ last.op = "alloc_page"
    /\ last.status = ZX_ERR_NO_MEMORY
    /\ Cardinality(Pages(arena)) >= 2
    /\ \A p \in Pages(arena) :
          /\ arena.page_array[p].state = VM_PAGE_STATE_ALLOCATED
          /\ arena.page_array[p].ref_count = 1

\* the step moved the page it names from Allocated to Free
BecameFree(p) ==
    /\ arena.page_array[p].state = VM_PAGE_STATE_ALLOCATED
    /\ arena'.page_array[p].state = VM_PAGE_STATE_FREE

C12_AfterFree ==
    (last.op = "free_page" /\ last.status = ZX_OK
        /\ arena.page_array[last.page].state = VM_PAGE_STATE_FREE) =>
        /\ arena.free_list = last.page
        /\ PmmAllocPage(arena).status = ZX_OK
        /\ PmmAllocPage(arena).page = last.page

C12_Step ==
    /\ (last'.op = "alloc_page" /\ last'.status = ZX_OK) => last'.page = arena.free_list
    /\ (last'.op = "free_page" /\ BecameFree(last'.page)) => arena'.free_list = last'.page
    /\ (~(last'.op = "alloc_page" /\ last'.status = ZX_OK)
          /\ ~(last'.op = "free_page" /\ BecameFree(last'.page))) =>
            arena'.free_list = arena.free_list

\* C12: the free list is LIFO: the page a free_page call moved to Free heads
\* the list, it stays the head until another page becomes Free or a page is
\* handed out, and a successful alloc_page returns the head.
C12_FreeListLifo == ([]C12_AfterFree) /\ [][C12_Step]_vars

\* of a three-page arena handed out in full, the middle page has just been freed
C12_Witness ==
    /\ last.op = "free_page"
    /\ last.status = ZX_OK
    /\ Cardinality(Pages(arena)) = 3
    /\ last.page = 1
    /\ arena.free_list = 1
    /\ arena.free_count = 1
    /\ arena.page_array[0].state = VM_PAGE_STATE_ALLOCATED
    /\ arena.page_array[2].state = VM_PAGE_STATE_ALLOCATED

C13_Step ==
    (last'.op = "free_page"
        /\ arena.page_array[last'.page].state = VM_PAGE_STATE_ALLOCATED
        /\ arena.page_array[last'.page].ref_count >= 1) =>
        LET p == last'.page
            k == arena.page_array[p].ref_count
        IN  /\ last'.status = ZX_OK
            /\ \A q \in Pages(arena) \ {p} : arena'.page_array[q] = arena.page_array[q]
            /\ arena'.page_array[p].ref_count = k - 1
            /\ k >= 2 =>
                 /\ arena'.page_array[p].state = VM_PAGE_STATE_ALLOCATED
                 /\ arena'.free_count = arena.free_count
                 /\ FreeList(arena') = FreeList(arena)
            /\ k = 1 =>
                 /\ arena'.page_array[p].state = VM_PAGE_STATE_FREE
                 /\ arena'.free_count = arena.free_count + 1
                 /\ FreeList(arena') = <<p>> \o FreeList(arena)

C13_AllocThenFree ==
    (last.op = "alloc_page" /\ last.status = ZX_OK) =>
        /\ PmmFreePage(arena, last.page).status = ZX_OK
        /\ PmmFreePage(arena, last.page).arena.free_count = arena.free_count + 1
        /\ PmmFreePage(arena, last.page).arena.page_array[last.page].state = VM_PAGE_STATE_FREE

\* C13: free_page is a reference release: with ref_count k >= 2 it returns Ok,
\* leaves k-1, the page Allocated and free_count and the free list as they
\* were; with k = 1 it returns Ok, makes the page Free with ref_count 0 and
\* raises free_count by one, so alloc_page then free_page restores free_count.
C13_FreeIsRelease == ([]C13_AllocThenFree) /\ [][C13_Step]_vars

\* a release has just left an aliased page Allocated
C13_Witness ==
    /\ last.op = "free_page"
    /\ last.status = ZX_OK
    /\ arena.page_array[last.page].state = VM_PAGE_STATE_ALLOCATED
    /\ arena.page_array[last.page].ref_count = 1
    /\ arena.free_count >= 1

\* C14: free_page on a descriptor that is Free (or has ref_count 0) returns
\* InvalidArgs and leaves the arena as it was.
C14_DoubleFreeRefused ==
    \A p \in Pages(arena) :
        (arena.page_array[p].state = VM_PAGE_STATE_FREE \/ arena.page_array[p].ref_count = 0) =>
            PmmFreePage(arena, p) = [status |-> ZX_ERR_INVALID_ARGS, arena |-> arena]

\* the page freed a moment ago was freed again and the call refused
C14_Witness ==
    /\ last.op = "free_page"
    /\ last.status = ZX_ERR_INVALID_ARGS
    /\ arena.free_list = last.page
    /\ arena.page_array[last.page].state = VM_PAGE_STATE_FREE
    /\ \E p \in Pages(arena) : arena.page_array[p].state = VM_PAGE_STATE_ALLOCATED

\* both threads have returned from their calls
BothReturned == \A t \in PmmThreads : threads[t].pc = "done"

\* C31: with two threads calling pmm_arena_alloc_page and/or
\* pmm_arena_free_page on the same arena, in every interleaving of their
\* steps two alloc calls never return the same descriptor and, once both
\* calls have returned, free_count equals the number of Free descriptors and
\* the length of the free list.
C31_PmmMutuallyExclusive ==
    BothReturned =>
        /\ (\A t \in PmmThreads : threads[t].op = "alloc_page" /\ threads[t].status = ZX_OK)
              => threads[1].page # threads[2].page
        /\ arena.free_count = Cardinality(FreePages(arena))
        /\ arena.free_count = Len(FreeList(arena))

\* arena a is as pmm_arena_init(base, n * PAGE_SIZE) leaves it
ArenaAsInit(a, base, n) ==
    /\ a.base = base
    /\ a.size = n * PAGE_SIZE
    /\ Pages(a) = 0..(n - 1)
    /\ \A i \in Pages(a) :
         /\ a.page_array[i].paddr = base + (i * PAGE_SIZE)
         /\ a.page_array[i].state = VM_PAGE_STATE_FREE
         /\ a.page_array[i].ref_count = 0
    /\ \A i, j \in Pages(a) : a.page_array[i].paddr = a.page_array[j].paddr => i = j
    /\ Len(FreeList(a)) = n
    /\ SeqRange(FreeList(a)) = Pages(a)
    /\ a.free_count = n

InitBases == {0, ArenaBase}

C2_GetResolvesIssued ==
    /\ \A h \in IssuedIds : \A q \in GetRights :
         issued[h].by = "alloc" =>
         HandleGet(table, h, q) =
           IF BitAnd(issued[h].rights, q) = q
           THEN [status |-> ZX_OK, object |-> issued[h].object]
           ELSE [status |-> ZX_ERR_INVALID_ARGS, object |-> NULL]
    /\ \A h \in HandleIds \ ({ZX_HANDLE_INVALID} \cup IssuedIds) : \A q \in GetRights :
         HandleGet(table, h, q).status = ZX_ERR_BAD_HANDLE

\* C3: every ID a successful handle_alloc or handle_duplicate returns is
\* non-zero and differs from every ID live at that moment.
C3_FreshIds ==
    (last.op \in {"handle_alloc", "handle_duplicate"} /\ last.status = ZX_OK) =>
        (last.handle # ZX_HANDLE_INVALID /\ last.fresh)

\* the entries linked in the chains of table t
Entries(t) == UNION {SeqRange(t.buckets[b]) : b \in DOMAIN t.buckets}

\* rights a is within rights b
RightsWithin(a, b) == BitAnd(a, b) = a

\* every combination of the four rights
AllRights == 0..(2 * ZX_RIGHT_TRANSFER - 1)

C24_Duplicate ==
    \A handle \in HandleIds \ {ZX_HANDLE_INVALID} :
        FindEntry(table, handle).pos # 0 =>
            LET source == EntryAt(table, FindEntry(table, handle))
                may == RightsWithin(ZX_RIGHT_DUPLICATE, source.rights)
                refused == [status |-> ZX_ERR_INVALID_ARGS,
                            handle |-> ZX_HANDLE_INVALID, table |-> table]
                installed == [object |-> source.object, rights |-> 0, ref_count |-> 1]
                id == table.count + 1
                grown == [table EXCEPT !.count = @ + 1,
                                       !.buckets[HandleHash(table, id)] = <<installed>> \o @]
            IN  \A rights \in AllRights :
                    LET r == HandleDuplicate(table, handle, rights, FALSE)
                    IN  IF ~may THEN r = refused
                        ELSE /\ r.status = ZX_OK
                             /\ r.table = [grown EXCEPT !.buckets[HandleHash(table, id)][1].rights
                                                            = BitAnd(rights, source.rights)]

\* a AND b is within a and within b
C24_AndIsWithin ==
    \A a, b \in AllRights : RightsWithin(BitAnd(a, b), a) /\ RightsWithin(BitAnd(a, b), b)

C24_Granted ==
    \A e \in Entries(table) : \E granted \in AllocRights : RightsWithin(e.rights, granted)

\* C24: handle_duplicate on a source entry without the Duplicate right
\* returns InvalidArgs and adds no entry; otherwise it adds one entry, for the
\* object of the source entry and with rights requested AND source rights,
\* which are within the rights of the source; so every entry of the table
\* carries rights within those of a handle_alloc.
C24_DuplicateNeverGainsRights == C24_Duplicate /\ C24_AndIsWithin /\ C24_Granted

\* a duplicate has just installed an entry with fewer rights than its
\* source, next to an entry that may not be duplicated
C24_Witness ==
    /\ last.op = "handle_duplicate"
    /\ last.status = ZX_OK
    /\ \E e \in Entries(table) : e.rights = ZX_RIGHT_READ
    /\ \E e \in Entries(table) : ~RightsWithin(ZX_RIGHT_DUPLICATE, e.rights)

\* alloc(obj, Read|Write|Duplicate) = id1; duplicate(id1, Read|Transfer) = id2
\* on table t, then the three handle_get calls of the scenario
DuplicateScenario(t, obj) ==
    LET a == HandleAlloc(t, obj, ZX_RIGHT_READ + ZX_RIGHT_WRITE + ZX_RIGHT_DUPLICATE, FALSE)
        d == HandleDuplicate(a.table, a.handle, ZX_RIGHT_READ + ZX_RIGHT_TRANSFER, FALSE)
    IN  /\ a.status = ZX_OK
        /\ d.status = ZX_OK
        /\ HandleGet(d.table, d.handle, ZX_RIGHT_WRITE)
              = [status |-> ZX_ERR_INVALID_ARGS, object |-> NULL]
        /\ HandleGet(d.table, d.handle, ZX_RIGHT_READ) = [status |-> ZX_OK, object |-> obj]
        /\ HandleGet(d.table, a.handle, ZX_RIGHT_READ + ZX_RIGHT_WRITE)
              = [status |-> ZX_OK, object |-> obj]

\* C25: in a freshly initialised table, with id1 = alloc(obj, Read|Write|
\* Duplicate) and id2 = duplicate(id1, Read|Transfer): get(id2, Write) is
\* InvalidArgs, get(id2, Read) is Ok with obj and get(id1, Read|Write) is
\* still Ok with obj.
C25_DuplicateScenario ==
    last = NoCall => \A obj \in Objects : DuplicateScenario(table, obj)

\* handle_close on the IDs order[1], order[2], ... from i on: whether every
\* call returned Ok, and the table left
RECURSIVE CloseAll(_, _, _)
CloseAll(t, order, i) ==
    IF i > Len(order) THEN [ok |-> TRUE, table |-> t]
    ELSE LET r == HandleClose(t, order[i])
             rest == CloseAll(r.table, order, i + 1)
         IN  [ok |-> r.status = ZX_OK /\ rest.ok, table |-> rest.table]

\* the orders in which the IDs of set S can be closed once each
Orders(S) == {order \in [1..Cardinality(S) -> S] : SeqRange(order) = S}

\* C26: when the IDs returned so far are 1..count, none of them closed,
\* closing each once, in any order, returns Ok every time and leaves count 0
\* and every chain empty.
C26_CloseAllEmpties ==
    (IssuedIds # {} /\ IssuedIds = 1..table.count) =>
        \A order \in Orders(IssuedIds) :
            LET r == CloseAll(table, order, 1)
            IN  /\ r.ok
                /\ r.table.count = 0
                /\ \A b \in DOMAIN r.table.buckets : r.table.buckets[b] = <<>>

\* C27: handle_close on ID 0 returns InvalidArgs, and on an ID that was never
\* returned or was closed since it returns BadHandle; both leave the table as
\* it was.
C27_BadCloseChangesNothing ==
    \A handle \in HandleIds :
        /\ handle = ZX_HANDLE_INVALID =>
              HandleClose(table, handle) = [status |-> ZX_ERR_INVALID_ARGS, table |-> table]
        /\ (handle # ZX_HANDLE_INVALID /\ handle \notin IssuedIds) =>
              HandleClose(table, handle) = [status |-> ZX_ERR_BAD_HANDLE, table |-> table]

\* where the entries linked in the chains of table t sit
LinkedEntries(t) ==
    UNION {{<<b, i>> : i \in 1..Len(t.buckets[b])} : b \in DOMAIN t.buckets}

C38_CountIsLinked ==
    /\ table.count = Cardinality(LinkedEntries(table))
    /\ \A w \in LinkedEntries(table) : table.buckets[w[1]][w[2]].ref_count = 1

\* chain s2 is chain s with one entry taken out
OneUnlinked(s, s2) == \E pos \in 1..Len(s) : s2 = Unlink(s, pos)

C38_Step ==
    LET added == last'.op \in {"handle_alloc", "handle_duplicate"} /\ last'.status = ZX_OK
        removed == last'.op = "handle_close" /\ last'.status = ZX_OK
    IN  /\ added =>
              /\ table'.count = table.count + 1
              /\ \E b \in DOMAIN table.buckets :
                    /\ Len(table'.buckets[b]) = Len(table.buckets[b]) + 1
                    /\ Tail(table'.buckets[b]) = table.buckets[b]
                    /\ Head(table'.buckets[b]).ref_count = 1
                    /\ \A c \in DOMAIN table.buckets \ {b} : table'.buckets[c] = table.buckets[c]
        /\ removed =>
              /\ table'.count = table.count - 1
              /\ \E b \in DOMAIN table.buckets :
                    /\ OneUnlinked(table.buckets[b], table'.buckets[b])
                    /\ \A c \in DOMAIN table.buckets \ {b} : table'.buckets[c] = table.buckets[c]
        /\ ~(added \/ removed) => table' = table

\* C38: after handle_table_init and any handle_alloc, handle_duplicate,
\* handle_close and handle_get calls, count is the number of entries linked
\* in the bucket chains and every entry has ref_count 1; a successful alloc or
\* duplicate links exactly one entry, with ref_count 1, a successful close
\* unlinks exactly one, and a failing call or a handle_get leaves the table as
\* it was.
C38_CountMatchesChains == ([]C38_CountIsLinked) /\ [][C38_Step]_vars

\* a close has just unlinked one entry of a table that a duplicate had added
\* to, and one entry is left
C38_Witness ==
    /\ last.op = "handle_close"
    /\ last.status = ZX_OK
    /\ table.count = 1
    /\ Cardinality(LinkedEntries(table)) = 1
    /\ \E h \in IssuedIds : issued[h].by = "duplicate"

\* ================================================================ claims: message queue

\* the queue links exactly the packets enqueued and not yet taken off, oldest
\* at head, each once; count is their number, tail the last of them, and head
\* and tail are NULL exactly when count is 0
QueueWellFormed ==
    LET chain == QueueChain(queue)
    IN  /\ queue.count = Len(chain)
        /\ chain = [i \in 1..Len(queued) |-> queued[i].id]
        /\ \A i, j \in 1..Len(chain) : chain[i] = chain[j] => i = j
        /\ queue.tail = (IF chain = <<>> THEN NULL ELSE chain[Len(chain)])
        /\ (queue.head = NULL) <=> (queue.count = 0)
        /\ (queue.tail = NULL) <=> (queue.count = 0)
        /\ \A i \in 1..Len(chain) : queue.pkts[chain[i]].data = queued[i].data

\* a message_queue_dequeue returns the oldest packet still on the queue,
\* unlinked, and on an empty queue returns nothing and changes nothing
C33_DequeueStep ==
    last'.op = "message_queue_dequeue" =>
        IF queued = <<>>
        THEN ~last'.found /\ queue' = queue
        ELSE /\ last'.found
             /\ last'.id = Head(queued).id
             /\ last'.data = Head(queued).data
             /\ last'.next = NULL
             /\ last'.prev = NULL

\* C33: after message_queue_init and any sequence of message_queue_enqueue /
\* message_queue_dequeue / message_queue_destroy calls, count equals the number
\* of packets linked from head, tail is the last of them (head and tail are
\* both NULL exactly when count is 0), every packet is linked at most once,
\* dequeue returns the oldest enqueued packet still present, and dequeue on
\* an empty queue returns nothing and changes nothing.
C33_QueueInvariants == ([]QueueWellFormed) /\ [][C33_DequeueStep]_vars

\* a dequeue has returned the oldest of several packets, others remaining
C33_Witness ==
    /\ last.op = "message_queue_dequeue"
    /\ last.found
    /\ queue.count >= 2
    /\ queue.head # queue.tail

\* ================================================================ claims: channels

IsPrefix(a, b) == Len(a) <= Len(b) /\ SubSeq(b, 1, Len(a)) = a

\* the endpoint channel_create made for side s of the k-th handle pair
EndpointOf(k, s) == 2 * (k - 1) + s

\* the handle table as callers get it from get_current_handle_table()
TableView == GetCurrentHandleTable(table, g_handle_table_initialized)

\* C4: for every channel and either direction, the payloads the successful
\* reads on one side's handle returned are, at every moment, a prefix of the
\* payloads of the successful writes on the peer side's handle, in write order.
C4_ReadsPrefixOfPeerWrites ==
    \A k \in 1..Len(chans) : \A s \in 1..2 :
        IsPrefix(rlog[k][s], wlog[k][3 - s])

\* write(hw, payload) then read(hr) on the state as it is: both Ok, the read
\* reporting the payload's size and bytes and leaving the reader's queue empty
RoundTrip(hw, hr, reader, payload) ==
    LET w == ChannelWrite(table, g_handle_table_initialized, endpoints, hw,
                          payload, Len(payload), FALSE, <<>>, 0, TRUE, FALSE)
        r == ChannelRead(w.table, w.initialized, w.endpoints, hr, MaxDataSize, 0)
    IN  /\ w.status = ZX_OK
        /\ r.status = ZX_OK
        /\ r.out.actual_data_size = Len(payload)
        /\ r.out.data_copied
        /\ r.out.data = payload
        /\ QueueContents(r.endpoints[reader].message_queue) = <<>>

\* C5: right after channel_create returned (h0, h1), for every payload (the
\* empty one included) write(h0) is Ok and the read(h1) that follows is Ok,
\* reports the payload's length and bytes and leaves h1's queue empty; the
\* same with h0 and h1 exchanged.
C5_RoundTripAfterCreate ==
    (last.op = "channel_create" /\ last.status = ZX_OK) =>
        \A payload \in Payloads :
            /\ RoundTrip(last.handle0, last.handle1, Len(endpoints), payload)
            /\ RoundTrip(last.handle1, last.handle0, Len(endpoints) - 1, payload)

\* close(first); write(other, "x"); close(other) on the state as it is: Ok,
\* BadHandle with no queue touched, Ok
CloseWriteClose(first, other) ==
    LET c1 == ChannelClose(table, g_handle_table_initialized, endpoints, first)
        w == ChannelWrite(c1.table, c1.initialized, c1.endpoints, other,
                          <<120>>, 1, FALSE, <<>>, 0, TRUE, FALSE)
        c2 == ChannelClose(w.table, w.initialized, w.endpoints, other)
    IN  /\ c1.status = ZX_OK
        /\ w.status = ZX_ERR_BAD_HANDLE
        /\ w.endpoints = c1.endpoints
        /\ c2.status = ZX_OK

\* C6: after channel_create returned (h0, h1), closing one handle is Ok, a
\* later write on the other is BadHandle and enqueues nothing, and closing
\* the other afterwards is Ok, whichever handle is closed first.
C6_PeerCloseThenWrite ==
    (last.op = "channel_create" /\ last.status = ZX_OK) =>
        /\ CloseWriteClose(last.handle1, last.handle0)
        /\ CloseWriteClose(last.handle0, last.handle1)

\* reads on handle h, one per payload of pending, each Ok and returning that payload
RECURSIVE DrainsInOrder(_, _, _, _, _)
DrainsInOrder(t, initialized, eps, h, pending) ==
    IF pending = <<>> THEN TRUE
    ELSE LET r == ChannelRead(t, initialized, eps, h, MaxDataSize, 1)
         IN  /\ r.status = ZX_OK
             /\ r.out.data = Head(pending)
             /\ DrainsInOrder(r.table, r.initialized, r.endpoints, h, Tail(pending))

\* C7: closing endpoint A does not discard what it sent: afterwards the reads
\* on the surviving endpoint B's handle keep returning Ok, in write order, for
\* every message A wrote before closing, until B's queue is empty.
C7_OrphanDrains ==
    \A k \in 1..Len(chans) : \A s \in 1..2 :
        (~chans[k].open[s] /\ chans[k].open[3 - s]) =>
            DrainsInOrder(table, g_handle_table_initialized, endpoints, chans[k].handle[3 - s],
                          SubSeq(wlog[k][s], Len(rlog[k][3 - s]) + 1, Len(wlog[k][s])))

Paired(eps, e) ==
    /\ ~eps[e].is_closed
    /\ eps[e].peer # NULL
    /\ ~eps[eps[e].peer].is_closed

C8_ClosedQueueEmpty ==
    \A e \in 1..Len(endpoints) :
        endpoints[e].is_closed =>
            /\ QueueContents(endpoints[e].message_queue) = <<>>
            /\ endpoints[e].message_queue.count = 0

\* a step in which channel_write returned Ok: the handle written to was handed
\* out for an endpoint that was Paired, the peer's queue got the packet at its
\* tail, and nothing else of any endpoint changed
C8_WriteStep ==
    (last'.op = "channel_write" /\ last'.status = ZX_OK) =>
        \E ks \in SidesOf(last'.handle) :
            LET e == EndpointOf(ks[1], ks[2])
                peer == endpoints[e].peer
            IN  /\ Paired(endpoints, e)
                /\ QueueContents(endpoints'[peer].message_queue) =
                      Append(QueueContents(endpoints[peer].message_queue),
                             [data |-> last'.data, handles |-> last'.handles])
                /\ endpoints'[peer].message_queue.count = endpoints[peer].message_queue.count + 1
                /\ endpoints'[e] = endpoints[e]
                /\ \A f \in 1..Len(endpoints) :
                      f # peer => endpoints'[f] = endpoints[f]
                /\ endpoints'[peer].peer = endpoints[peer].peer
                /\ endpoints'[peer].is_closed = endpoints[peer].is_closed

\* C8: whenever channel_write returns Ok the writing endpoint was Paired,
\* exactly one packet was appended at the tail of the peer's queue and the
\* writer's own queue is unchanged; and a closed endpoint's queue is always empty.
C8_WriteOnlyWhenPaired == ([]C8_ClosedQueueEmpty) /\ [][C8_WriteStep]_vars

\* channel_write has just returned Ok and its packet sits behind an older one
C8_Witness ==
    /\ last.op = "channel_write"
    /\ last.status = ZX_OK
    /\ \E e \in 1..Len(endpoints) :
          /\ Len(QueueContents(endpoints[e].message_queue)) = 2
          /\ QueueContents(endpoints[e].message_queue)[2].data = last.data
          /\ QueueContents(endpoints[e].message_queue)[1].data # last.data
          /\ endpoints[e].peer # NULL
          /\ QueueContents(endpoints[endpoints[e].peer].message_queue) = <<>>

\* C9: a channel_write that returns an error, and a channel_read that returns
\* an error (unknown handle, missing right, closed endpoint, empty queue),
\* leaves both endpoints' queues and the handle table as they were.
C9_FailedCallStep ==
    (last'.op \in {"channel_write", "channel_read"} /\ last'.status # ZX_OK) =>
        /\ endpoints' = endpoints
        /\ TableView' = TableView

C9_FailedCallsChangeNothing == [][C9_FailedCallStep]_vars

\* a read failed on an empty queue, and a write failed on an orphaned
\* endpoint, while messages were pending elsewhere
C9_Witness ==
    /\ last.op = "channel_write"
    /\ last.status = ZX_ERR_BAD_HANDLE
    /\ last.handle # ZX_HANDLE_INVALID
    /\ HandleGet(TableView, last.handle, ZX_RIGHT_WRITE).status = ZX_OK
    /\ \E e \in 1..Len(endpoints) : QueueContents(endpoints[e].message_queue) # <<>>

\* the IDs of the handle pairs handed out before the latest one and not
\* closed since
LiveBeforeLatest ==
    {chans[ks[1]].handle[ks[2]] :
        ks \in {x \in Sides : x[1] < Len(chans) /\ chans[x[1]].open[x[2]]}}

\* handle h resolves through handle_get to endpoint e, the entry found
\* carrying exactly Read, Write and Transfer
ResolvesTo(h, e) ==
    /\ \A rights \in {ZX_RIGHT_NONE, ZX_RIGHT_READ, ZX_RIGHT_WRITE, ZX_RIGHT_TRANSFER, ChannelRights} :
         HandleGet(table, h, rights) = [status |-> ZX_OK, object |-> e]
    /\ HandleGet(table, h, ZX_RIGHT_DUPLICATE).status = ZX_ERR_INVALID_ARGS

\* C28: right after a successful channel_create, also one made after earlier
\* channel handles were closed, the two IDs returned are non-zero, differ from
\* each other and from every ID still live, resolve through handle_get to the
\* two new endpoints with rights exactly Read, Write and Transfer, and the two
\* endpoints are each other's peer, open, with empty queues.
C28_CreateYieldsFreshPair ==
    (last.op = "channel_create" /\ last.status = ZX_OK) =>
        LET e0 == Len(endpoints) - 1
            e1 == Len(endpoints)
        IN  /\ last.handle0 # ZX_HANDLE_INVALID
            /\ last.handle1 # ZX_HANDLE_INVALID
            /\ last.handle0 # last.handle1
            /\ {last.handle0, last.handle1} \cap LiveBeforeLatest = {}
            /\ ResolvesTo(last.handle0, e0)
            /\ ResolvesTo(last.handle1, e1)
            /\ endpoints[e0].peer = e1
            /\ endpoints[e1].peer = e0
            /\ \A e \in {e0, e1} :
                 /\ ~endpoints[e].is_closed
                 /\ QueueContents(endpoints[e].message_queue) = <<>>

\* a successful channel_write with a non-empty handle list: every listed ID
\* carried Transfer before the call and is unknown to the table after it
C29_WriteStep ==
    (last'.op = "channel_write" /\ last'.status = ZX_OK /\ last'.handles # <<>>) =>
        \A h \in SeqRange(last'.handles) :
            /\ HandleGet(TableView, h, ZX_RIGHT_TRANSFER).status = ZX_OK
            /\ HandleGet(table', h, ZX_RIGHT_NONE).status = ZX_ERR_BAD_HANDLE

\* a successful channel_read that hands handles to the caller: the IDs handed
\* over were allocated by the read (unknown to the table before it, resolved
\* by it afterwards, one new entry each)
C29_ReadStep ==
    (last'.op = "channel_read" /\ last'.status = ZX_OK /\ last'.out.handles # <<>>) =>
        /\ table'.count = TableView.count + Len(last'.out.handles)
        /\ \A h \in SeqRange(last'.out.handles) :
             /\ HandleGet(TableView, h, ZX_RIGHT_NONE).status = ZX_ERR_BAD_HANDLE
             /\ HandleGet(table', h, ZX_RIGHT_NONE).status = ZX_OK

\* C29: sending a handle over a channel consumes it: a channel_write with a
\* non-empty handle list succeeds only if every listed handle carries Transfer,
\* after it the listed IDs are no longer valid in the sender's table, and the
\* reader of the packet receives IDs newly allocated for the objects sent.
C29_TransferConsumes == [][C29_WriteStep /\ C29_ReadStep]_vars

\* the handle channel_create returned together with h
PeerHandle(h) ==
    CHOOSE p \in RaceHandles :
        \E k \in 1..Len(chans) : SeqRange(chans[k].handle) = {h, p} /\ p # h

\* C30: a channel_write on one endpoint run against a channel_close of the
\* peer endpoint by another thread, in any interleaving of their statements:
\* once both have returned, the write has returned BadHandle having enqueued
\* nothing, or it has enqueued its packet before the close ran any statement;
\* and never has the write returned Ok with its packet on the queue of an
\* endpoint marked closed.
C30_CloseWriteRaceFree ==
    LET w == threads.w
        c == threads.c
    IN  (w.pc = "done" /\ c.pc = "done" /\ c.handle = PeerHandle(w.handle)) =>
            /\ \/ w.status = ZX_ERR_BAD_HANDLE /\ ~w.enqueued
               \/ w.status = ZX_OK /\ w.enqueued /\ w.before_close
            /\ ~ /\ w.status = ZX_OK
                 /\ \E e \in 1..Len(endpoints) :
                      /\ endpoints[e].is_closed
                      /\ QueueContents(endpoints[e].message_queue) # <<>>

\* every queue's count is the number of packets linked from its head
CountsMatch ==
    \A e \in 1..Len(endpoints) :
        endpoints[e].message_queue.count = Len(QueueChain(endpoints[e].message_queue))

\* the read has returned Ok with the packet of the write
DeliveredWritten ==
    /\ threads.r.status = ZX_OK
    /\ threads.r.out.actual_data_size = Len(threads.w.data)
    /\ threads.r.out.data_copied => threads.r.out.data = threads.w.data

\* C32: a channel_write on one handle of the pair channel_create returned, run
\* against a channel_read on the other handle (the endpoint whose queue the
\* write enqueues on), the queue being empty before, in any interleaving of
\* their statements: once both have returned, every queue's count equals the
\* number of packets linked from its head; the packet of an Ok write is either
\* still the only one on the queue or has been delivered by the read, once and
\* to no one else, and a read called after the write returned Ok delivers it;
\* a read delivers nothing that was not written.
C32_ConcurrentQueueFifo ==
    LET w == threads.w
        r == threads.r
    IN  (/\ w.pc = "done"
         /\ r.pc = "done"
         /\ w.handle # r.handle
         /\ {w.handle, r.handle} = {last.handle0, last.handle1}) =>
            /\ CountsMatch
            /\ r.after_write => DeliveredWritten
            /\ r.status = ZX_OK => w.status = ZX_OK /\ DeliveredWritten
            /\ (w.status = ZX_OK /\ r.status # ZX_OK) =>
                  QueueContents(endpoints[w.peer].message_queue) =
                      <<[data |-> w.data, handles |-> <<>>]>>
            /\ (w.status = ZX_OK /\ r.status = ZX_OK) =>
                  QueueContents(endpoints[w.peer].message_queue) = <<>>

\* the packet addresses linked in the queue of any endpoint
LinkedPackets(eps, e) == SeqRange(QueueChain(eps[e].message_queue))

\* channel_read(handle, ..) called in this state with buffers of data_size
\* bytes and num_handles handles, the handle resolving with Read to the open
\* endpoint e whose queue holds a packet
ReadConsumesHead(handle, e, data_size, num_handles) ==
    LET q == endpoints[e].message_queue
        head == q.pkts[q.head]
        r == ChannelRead(table, g_handle_table_initialized, endpoints, handle,
                         data_size, num_handles)
        q2 == r.endpoints[e].message_queue
    IN  /\ r.status = ZX_OK
        /\ r.out.actual_data_size = head.data_size
        /\ r.out.actual_num_handles = head.num_handles
        /\ r.out.data_copied <=> data_size >= head.data_size
        /\ r.out.data_copied => r.out.data = head.data
        /\ r.out.handles_copied <=> num_handles >= head.num_handles
        /\ r.out.handles_copied => r.out.handles = head.handles
        /\ QueueContents(q2) = Tail(QueueContents(q))
        /\ q2.count = q.count - 1
        /\ q.head \notin DOMAIN q2.pkts
        /\ \A x \in DOMAIN q2.pkts : q2.pkts[x].data = q.pkts[x].data
        /\ \A w \in DOMAIN endpoints : w # e => r.endpoints[w] = endpoints[w]
        /\ r.table = table

\* C37: channel_read with a handle that resolves, with the Read right, to an
\* open endpoint whose queue is not empty returns Ok, reports the data size
\* and the handle count of the head packet, copies the data (the handles)
\* exactly when the caller's buffer is at least as large, and in every case
\* unlinks and destroys the head packet: the queue is left with the packets
\* behind it.
C37_ReadAlwaysConsumes ==
    g_handle_table_initialized =>
        \A handle \in ChannelHandleIds \ {ZX_HANDLE_INVALID} :
            LET g == HandleGet(table, handle, ZX_RIGHT_READ)
            IN  (/\ g.status = ZX_OK
                 /\ ~endpoints[g.object].is_closed
                 /\ ~MessageQueueIsEmpty(endpoints[g.object].message_queue)) =>
                    \A data_size \in ReadDataSizes, num_handles \in ReadNumHandles :
                        ReadConsumesHead(handle, g.object, data_size, num_handles)

\* a read with a buffer of 0 bytes and room for no handle has just returned Ok
\* for a packet of one byte and one handle, which was not copied, and the
\* queue it was on is empty
C37_Witness ==
    /\ last.op = "channel_read"
    /\ last.status = ZX_OK
    /\ last.data_size = 0
    /\ last.num_handles = 0
    /\ last.out.actual_data_size = 1
    /\ last.out.actual_num_handles = 1
    /\ ~last.out.data_copied
    /\ ~last.out.handles_copied
    /\ LET g == HandleGet(table, last.handle, ZX_RIGHT_READ)
       IN  g.status = ZX_OK /\ MessageQueueIsEmpty(endpoints[g.object].message_queue)

\* the entries of the table that hold endpoint e
EntriesOf(t, e) == {w \in LinkedEntries(t) : t.buckets[w[1]][w[2]].object = e}

\* C39: handle_duplicate on a handle that resolves to the entry of a channel
\* endpoint in the table of the channels returns InvalidArgs, whatever rights
\* are asked for, and leaves the table as it was; no endpoint ever has two
\* entries.
C39_EndpointHandlesNotDuplicable ==
    LET table0 == GetCurrentHandleTable(table, g_handle_table_initialized)
    IN  /\ \A handle \in ChannelHandleIds \ {ZX_HANDLE_INVALID} :
              FindEntry(table0, handle).pos # 0 =>
                  \A rights \in DupRights \cup {ChannelRights}, oom \in BOOLEAN :
                      HandleDuplicate(table0, handle, rights, oom)
                          = [status |-> ZX_ERR_INVALID_ARGS, handle |-> ZX_HANDLE_INVALID,
                             table |-> table0]
        /\ last.op = "handle_duplicate" => last.status # ZX_OK
        /\ \A e \in DOMAIN endpoints : Cardinality(EntriesOf(table0, e)) <= 1
        /\ table0.count <= 2 * Len(chans)

\* a duplicate of a handle that resolves to the entry of an open endpoint has
\* just been refused with InvalidArgs
C39_Witness ==
    /\ last.op = "handle_duplicate"
    /\ last.status = ZX_ERR_INVALID_ARGS
    /\ last.source # ZX_HANDLE_INVALID
    /\ LET g == HandleGet(table, last.source, ZX_RIGHT_READ)
       IN  g.status = ZX_OK /\ ~endpoints[g.object].is_closed
    /\ table.count = 2

\* ================================================================ claims: VMO, page fault

\* slot i (from 0) of VMO v
Slot(vs, v, i) == vs[v].pages[i + 1]

\* the slots of the VMOs that hold a slot array
Slots == {s \in VmoIds \X (0..(MaxVmoPages - 1)) :
             vmos[s[1]].ptr = "array" /\ s[2] < vmos[s[1]].page_count}

\* C15: every non-empty slot of every VMO holds a descriptor of the arena that
\* is Allocated and is not on the free list.
C15_CommittedAreAllocated ==
    \A s \in Slots :
        Slot(vmos, s[1], s[2]) # NULL =>
            /\ Slot(vmos, s[1], s[2]) \in Pages(arena)
            /\ arena.page_array[Slot(vmos, s[1], s[2])].state = VM_PAGE_STATE_ALLOCATED
            /\ Slot(vmos, s[1], s[2]) \notin SeqRange(FreeList(arena))

\* one VMO was destroyed with a page committed and the other holds a page
C15_Witness ==
    /\ last.op = "vmo_destroy"
    /\ last.vmo # NULL
    /\ last.pages # {}
    /\ \E s \in Slots : Slot(vmos, s[1], s[2]) # NULL
    /\ arena.free_count >= 1

\* C16: no descriptor is held in two slots at once, of one VMO or of two.
C16_ExclusiveOwnership ==
    \A s, t \in Slots :
        (s # t /\ Slot(vmos, s[1], s[2]) # NULL) =>
            Slot(vmos, s[1], s[2]) # Slot(vmos, t[1], t[2])

\* VMO 1 was destroyed and VMO 2 has just committed its second slot with the
\* page of the arena that is handed out first: the page was held, released by
\* a destroy and is held again
C16_Witness ==
    /\ vmos[1].ptr = "null"
    /\ vmos[2].ptr = "array"
    /\ vmos[2].page_count = 2
    /\ Cardinality(Pages(arena)) = 2
    /\ last.op = "commit_page"
    /\ last.status = ZX_OK
    /\ last.vmo = 2
    /\ last.index = 1
    /\ last.was = NULL
    /\ Slot(vmos, 2, 0) = 0
    /\ Slot(vmos, 2, 1) = 1

C17_Again ==
    \A s \in Slots :
        Slot(vmos, s[1], s[2]) # NULL =>
            VmoBootstrapCommitPage(vmos, arena, s[1], s[2])
                = [status |-> ZX_OK, vmos |-> vmos, arena |-> arena]

C17_Step ==
    (last'.op = "commit_page" /\ last'.status = ZX_OK) =>
        IF last'.was # NULL
        THEN vmos' = vmos /\ arena' = arena
        ELSE /\ arena'.free_count = arena.free_count - 1
             /\ Slot(vmos', last'.vmo, last'.index) # NULL

\* C17: commit_page on a committed index returns Ok, keeps the descriptor in
\* the slot and leaves the arena as it was; only the commit of an empty slot
\* takes a page, and it takes one.
C17_CommitIdempotent == ([]C17_Again) /\ [][C17_Step]_vars

\* a committed index has just been committed again
C17_Witness ==
    /\ last.op = "commit_page"
    /\ last.status = ZX_OK
    /\ last.was # NULL
    /\ Slot(vmos, last.vmo, last.index) = last.was

\* C18: after the destroy of a VMO that had the arena to itself since its
\* init, free_count is what it was at the init and every page the VMO had
\* committed is Free.
C18_DestroyRestoresFreeCount ==
    (last.op = "vmo_destroy" /\ last.vmo # NULL) =>
        (last.base # NULL =>
            /\ arena.free_count = last.base
            /\ \A p \in last.pages : arena.page_array[p].state = VM_PAGE_STATE_FREE)

\* a VMO that had the arena to itself was destroyed with two pages committed
C18_Witness ==
    /\ last.op = "vmo_destroy"
    /\ last.vmo # NULL
    /\ last.base # NULL
    /\ Cardinality(last.pages) = 2
    /\ arena.free_count = 2

\* C19: commit_page with index >= page_count returns InvalidArgs, and on an
\* empty slot in range with no Free page in the arena it returns NoMemory;
\* both leave the VMOs and the arena as they were.
C19_FailedCommitChangesNothing ==
    \A v \in VmoIds : Usable(v) =>
        \A page_index \in 0..(MaxVmoPages + 1) :
            /\ page_index >= vmos[v].page_count =>
                  VmoBootstrapCommitPage(vmos, arena, v, page_index)
                      = [status |-> ZX_ERR_INVALID_ARGS, vmos |-> vmos, arena |-> arena]
            /\ (page_index < vmos[v].page_count /\ Slot(vmos, v, page_index) = NULL
                    /\ FreePages(arena) = {}) =>
                  VmoBootstrapCommitPage(vmos, arena, v, page_index)
                      = [status |-> ZX_ERR_NO_MEMORY, vmos |-> vmos, arena |-> arena]

\* a commit has failed for want of a page while a slot of each VMO holds one
C19_Witness ==
    /\ last.op = "commit_page"
    /\ last.status = ZX_ERR_NO_MEMORY
    /\ arena.free_count = 0
    /\ \A v \in VmoIds : vmos[v].ptr = "array" /\ Slot(vmos, v, 0) # NULL

\* flags has Write without User
WriteWithoutUser(flags) ==
    FlagSet(flags, PAGE_FAULT_FLAG_WRITE) /\ ~FlagSet(flags, PAGE_FAULT_FLAG_USER)

\* the flag values that do not have Write without User
AdmissibleFlags == {flags \in FaultFlags : ~WriteWithoutUser(flags)}

\* C20: at an address whose page index is below page_count and with flags
\* other than Write without User, page_fault_handle returns what
\* commit_page(fault_addr div 4096) returns and leaves the VMOs and the arena
\* as it leaves them: on an empty slot with a Free page in the arena it commits
\* that slot alone and lowers free_count by one, a fault on a committed slot
\* (so a second fault at the address) changes nothing, and the fault at
\* page_count * 4096 - 1 commits the last slot.
C20_FaultIsCommit ==
    \A v \in VmoIds : Usable(v) =>
        \A fault_addr \in FaultAddrs :
            (fault_addr \div PAGE_SIZE) < vmos[v].page_count =>
                LET page_index == fault_addr \div PAGE_SIZE
                    c == VmoBootstrapCommitPage(vmos, arena, v, page_index)
                IN  /\ \A flags \in AdmissibleFlags :
                          PageFaultHandle(vmos, arena, v, fault_addr, flags) = c
                    /\ (Slot(vmos, v, page_index) = NULL /\ arena.free_count > 0) =>
                          /\ c.status = ZX_OK
                          /\ Slot(c.vmos, v, page_index) # NULL
                          /\ \A s \in Slots \ {<<v, page_index>>} :
                                Slot(c.vmos, s[1], s[2]) = Slot(vmos, s[1], s[2])
                          /\ c.arena.free_count = arena.free_count - 1
                          /\ fault_addr = (vmos[v].page_count * PAGE_SIZE) - 1 =>
                                Slot(c.vmos, v, vmos[v].page_count - 1) # NULL
                    /\ Slot(vmos, v, page_index) # NULL =>
                          c = [status |-> ZX_OK, vmos |-> vmos, arena |-> arena]

\* the fault at the last byte of a two-page VMO has just committed its last slot
C20_Witness ==
    /\ last.op = "page_fault"
    /\ last.status = ZX_OK
    /\ last.was = NULL
    /\ vmos[last.vmo].page_count = 2
    /\ last.addr = (2 * PAGE_SIZE) - 1
    /\ Slot(vmos, last.vmo, 1) # NULL
    /\ Slot(vmos, last.vmo, 0) = NULL

\* C21: page_fault_handle at an address whose page index is >= page_count
\* returns NotFound, whatever the flags are, and leaves the VMOs and the arena
\* as they were.
C21_OutOfRangeNotFound ==
    \A v \in VmoIds : Usable(v) =>
        \A fault_addr \in FaultAddrs :
            (fault_addr \div PAGE_SIZE) >= vmos[v].page_count =>
                \A flags \in FaultFlags :
                    PageFaultHandle(vmos, arena, v, fault_addr, flags)
                        = [status |-> ZX_ERR_NOT_FOUND, vmos |-> vmos, arena |-> arena]

\* C22: page_fault_handle with Write set and User clear at an address in
\* range returns InvalidArgs and leaves the VMOs and the arena as they were,
\* whatever the Read and Exec bits are, whether the slot is empty or not and
\* whether the arena has a Free page or not.
C22_KernelWriteRefused ==
    \A v \in VmoIds : Usable(v) =>
        \A fault_addr \in FaultAddrs :
            (fault_addr \div PAGE_SIZE) < vmos[v].page_count =>
                \A flags \in FaultFlags \ AdmissibleFlags :
                    PageFaultHandle(vmos, arena, v, fault_addr, flags)
                        = [status |-> ZX_ERR_INVALID_ARGS, vmos |-> vmos, arena |-> arena]

\* a write without User has just been refused at the first byte of a VMO
\* whose first slot is empty, with a Free page in the arena
C22_Witness ==
    /\ last.op = "page_fault"
    /\ last.status = ZX_ERR_INVALID_ARGS
    /\ last.vmo # NULL
    /\ vmos[last.vmo].ptr = "array"
    /\ Slot(vmos, last.vmo, 0) = NULL
    /\ arena.free_count >= 1

\* C23: with no Free page in the arena, page_fault_handle on an empty slot in
\* range with admissible flags returns NoMemory, as commit_page does, and
\* leaves the VMOs and the arena as they were; once the destroy of the other
\* VMO has freed a page, the fault at the same address returns Ok and commits
\* the slot.
C23_FaultNoMemory ==
    \A v \in VmoIds : Usable(v) =>
        \A fault_addr \in FaultAddrs :
            ((fault_addr \div PAGE_SIZE) < vmos[v].page_count
                /\ Slot(vmos, v, fault_addr \div PAGE_SIZE) = NULL
                /\ FreePages(arena) = {}) =>
                LET page_index == fault_addr \div PAGE_SIZE
                    c == VmoBootstrapCommitPage(vmos, arena, v, page_index)
                IN  /\ c.status = ZX_ERR_NO_MEMORY
                    /\ \A flags \in AdmissibleFlags :
                          PageFaultHandle(vmos, arena, v, fault_addr, flags)
                              = [status |-> ZX_ERR_NO_MEMORY, vmos |-> vmos, arena |-> arena]
                    /\ \A w \in VmoIds \ {v} :
                          (Usable(w) /\ Committed(vmos, w) # {}) =>
                              LET d == VmoBootstrapDestroy(vmos, arena, w)
                              IN  \A flags \in AdmissibleFlags :
                                      LET r == PageFaultHandle(d.vmos, d.arena, v, fault_addr, flags)
                                      IN  /\ r.status = ZX_OK
                                          /\ Slot(r.vmos, v, page_index) # NULL

\* a fault has just failed for want of a page, on a VMO with an empty slot
\* while the other VMO holds a page
C23_Witness ==
    /\ last.op = "page_fault"
    /\ last.status = ZX_ERR_NO_MEMORY
    /\ arena.free_count = 0
    /\ vmos[last.vmo].ptr = "array"
    /\ \E i \in 0..(vmos[last.vmo].page_count - 1) : Slot(vmos, last.vmo, i) = NULL
    /\ \E w \in VmoIds \ {last.vmo} : Committed(vmos, w) # {}

\* the least number of pages that hold size bytes
CeilPages(size) == CHOOSE k \in 0..(MaxVmoPages + 1) : k * PAGE_SIZE >= size /\ (k - 1) * PAGE_SIZE < size

\* the sizes around every page boundary up to the largest VMO
InitSizes ==
    {k * PAGE_SIZE : k \in 1..MaxVmoPages}
    \cup {(k * PAGE_SIZE) + 1 : k \in 0..(MaxVmoPages - 1)}
    \cup {(k * PAGE_SIZE) - 1 : k \in 1..MaxVmoPages}

C35_Init ==
    \A v \in VmoIds : vmos[v].ptr # "array" =>
        /\ VmoBootstrapInit(vmos, v, 0) = [status |-> ZX_ERR_INVALID_ARGS, vmos |-> vmos]
        /\ \A size \in InitSizes :
              LET r == VmoBootstrapInit(vmos, v, size)
              IN  /\ r.status = ZX_OK
                  /\ r.vmos[v].size = size
                  /\ r.vmos[v].page_count = CeilPages(size)
                  /\ Len(r.vmos[v].pages) = CeilPages(size)
                  /\ \A i \in 0..(CeilPages(size) - 1) : Slot(r.vmos, v, i) = NULL
                  /\ \A w \in VmoIds \ {v} : r.vmos[w] = vmos[w]

C35_Step ==
    last'.op = "vmo_init" =>
        /\ arena' = arena
        /\ last'.status = ZX_OK =>
              /\ vmos'[last'.vmo].page_count = CeilPages(vmos'[last'.vmo].size)
              /\ vmos'[last'.vmo].page_count >= 1
              /\ Committed(vmos', last'.vmo) = {}
              /\ \A w \in VmoIds \ {last'.vmo} : vmos'[w] = vmos[w]
        /\ last'.status # ZX_OK =>
              /\ last'.status = ZX_ERR_INVALID_ARGS
              /\ vmos' = vmos

Destroyed(v) == vmos[v].ptr = "null"

\* destroy has left size and page_count 0, a further destroy changes nothing,
\* and a fault with any of the given flags finds nothing and commits nothing
DestroyedIsInert(flagset) ==
    /\ (last.op = "vmo_destroy" /\ last.vmo # NULL) =>
          /\ Destroyed(last.vmo)
          /\ vmos[last.vmo].size = 0
          /\ vmos[last.vmo].page_count = 0
    /\ \A v \in VmoIds : Destroyed(v) =>
          /\ vmos[v].size = 0
          /\ vmos[v].page_count = 0
          /\ VmoBootstrapDestroy(vmos, arena, v) = [vmos |-> vmos, arena |-> arena]
          /\ \A fault_addr \in FaultAddrs, flags \in flagset :
                PageFaultHandle(vmos, arena, v, fault_addr, flags)
                    = [status |-> ZX_ERR_NOT_FOUND, vmos |-> vmos, arena |-> arena]

\* C36: vmo_bootstrap_destroy sets size and page_count to 0; a second destroy
\* of the same VMO changes neither the VMOs nor the arena; a page fault on the
\* destroyed VMO, at any address and with any flags, returns NotFound and
\* changes neither.
C36_DestroyedVmoInert == DestroyedIsInert(FaultFlags)

====
